---- MODULE Spec2Model ----
(***************************************************************************)
(* A model of pisanix's MySQL session transaction state machine            *)
(* (runtime/mysql/src/transaction_fsm.rs) and of its SQL sharding rewriter *)
(* (proxy/strategy/src/sharding_rewrite/mod.rs).                           *)
(*                                                                         *)
(* Spec        : one TransFsm object driven by its session: trigger,       *)
(*               reset_fsm_state.                                          *)
(* SpecConn    : the connection take/put operations and the session        *)
(*               attribute setters of the same object.                     *)
(* SpecRewrite : one ShardingRewrite object answering query_rewrite calls  *)
(*               and its setters set_raw_sql and set_default_db.           *)
(***************************************************************************)
EXTENDS Integers, Sequences, FiniteSets, TLC

VARIABLES
    current_state,      \* TransFsm.current_state
    current_event,      \* TransFsm.current_event
    client_conn,        \* TransFsm.client_conn : Option<PoolConn>, a sequence of length <= 1
    shard_cache_conn,   \* TransFsm.shard_cache_conn : Vec<PoolConn>
    session,            \* TransFsm.db, charset and autocommit; an Option is a sequence of length <= 1
    pool_factory,       \* the factory of the pool (Pool::set_factory), an Option of the address
    held,               \* the connections the session's driver task owns
    panicked,           \* the driver task has panicked (unwrap on None)
    call,               \* the last operation called, its arguments, the await point it is
                        \* suspended at or its result
    script,             \* how far the events triggered so far follow a lifecycle script
    sharding_rewrite,   \* the ShardingRewrite object, an Option (None until constructed)
    build,              \* the build profile of the binary: "debug" or "release"
    rw_call,            \* the last call on the rewriter: its arguments and its outcome
    calls,              \* number of query_rewrite calls made
    sets                \* number of set_raw_sql and set_default_db calls made

fsm_vars == <<current_state, current_event, client_conn, shard_cache_conn, session,
              pool_factory, held, panicked, call, script>>

rw_vars == <<sharding_rewrite, build, rw_call, calls, sets>>

vars == <<fsm_vars, rw_vars>>

(***************************************************************************)
(* Bounds of the model.                                                    *)
(***************************************************************************)
\* Number of pooled connections that can be alive at once.
MaxConns == 2

(***************************************************************************)
(* TransState, TransEventName                                              *)
(***************************************************************************)
TransState ==
    {"TransDummyState", "TransUseState", "TransSetSessionState",
     "TransStartState", "TransPrepareState"}

TransEventName ==
    {"DummyEvent", "UseEvent", "SetSessionEvent", "QueryEvent", "StartEvent",
     "PrepareEvent", "SendLongDataEvent", "ExecuteEvent", "CloseEvent",
     "ResetEvent", "CommitRollBackEvent", "DropEvent"}

TransEvent(n, s, d) == [name |-> n, src_state |-> s, dst_state |-> d]

\* The transition table, in table order.
init_trans_events ==
    << TransEvent("UseEvent",            "TransDummyState",      "TransUseState"),
       TransEvent("UseEvent",            "TransUseState",        "TransUseState"),
       TransEvent("SetSessionEvent",     "TransDummyState",      "TransSetSessionState"),
       TransEvent("SetSessionEvent",     "TransUseState",        "TransSetSessionState"),
       TransEvent("SetSessionEvent",     "TransSetSessionState", "TransSetSessionState"),
       TransEvent("QueryEvent",          "TransSetSessionState", "TransSetSessionState"),
       TransEvent("QueryEvent",          "TransUseState",        "TransUseState"),
       TransEvent("QueryEvent",          "TransDummyState",      "TransDummyState"),
       TransEvent("StartEvent",          "TransDummyState",      "TransStartState"),
       TransEvent("StartEvent",          "TransUseState",        "TransStartState"),
       TransEvent("StartEvent",          "TransSetSessionState", "TransStartState"),
       TransEvent("PrepareEvent",        "TransDummyState",      "TransPrepareState"),
       TransEvent("PrepareEvent",        "TransUseState",        "TransPrepareState"),
       TransEvent("PrepareEvent",        "TransStartState",      "TransPrepareState"),
       TransEvent("SendLongDataEvent",   "TransPrepareState",    "TransPrepareState"),
       TransEvent("ExecuteEvent",        "TransPrepareState",    "TransPrepareState"),
       TransEvent("CloseEvent",          "TransPrepareState",    "TransDummyState"),
       TransEvent("ResetEvent",          "TransPrepareState",    "TransDummyState"),
       TransEvent("DropEvent",           "TransPrepareState",    "TransDummyState"),
       TransEvent("CommitRollBackEvent", "TransPrepareState",    "TransDummyState"),
       TransEvent("CommitRollBackEvent", "TransDummyState",      "TransDummyState"),
       TransEvent("CommitRollBackEvent", "TransStartState",      "TransDummyState"),
       TransEvent("QueryEvent",          "TransSetSessionState", "TransDummyState") >>

(***************************************************************************)
(* TransFsm::trigger                                                       *)
(***************************************************************************)
SetMin(S) == CHOOSE x \in S : \A y \in S : x <= y
SetMax(S) == CHOOSE x \in S : \A y \in S : x >= y

\* The rows of the table the loop's condition accepts.
MatchingRowsAnySrc(state_name, cur) ==
    {i \in DOMAIN init_trans_events : init_trans_events[i].name = state_name}

MatchingRows(state_name, cur) ==
    {i \in DOMAIN init_trans_events :
        /\ init_trans_events[i].name = state_name
        /\ init_trans_events[i].src_state = cur}

\* The row the scan stops at (the loop returns inside its first accepted row);
\* 0 when the scan runs off the end of the table.
TriggerRowLast(state_name, cur) ==
    IF MatchingRows(state_name, cur) = {} THEN 0 ELSE SetMax(MatchingRows(state_name, cur))

TriggerRow(state_name, cur) ==
    IF MatchingRows(state_name, cur) = {} THEN 0 ELSE SetMin(MatchingRows(state_name, cur))

\* What a matched row returns: true for a source state of Dummy only.
TriggerReturnAlways(src_state) == TRUE

TriggerReturn(src_state) == src_state = "TransDummyState"

\* The fields trigger leaves behind when no row matches.
TriggerUnmatchedStamp(fsm, state_name) ==
    [current_state |-> fsm.current_state, current_event |-> state_name,
     ret |-> FALSE, matched |-> FALSE]

TriggerUnmatched(fsm, state_name) ==
    [current_state |-> fsm.current_state, current_event |-> fsm.current_event,
     ret |-> FALSE, matched |-> FALSE]

\* trigger on the fields fsm = [current_state, current_event]: the fields after
\* the call, the value returned and whether a row matched.
trigger_keep_event(fsm, state_name) ==
    LET row == TriggerRow(state_name, fsm.current_state) IN
    IF row = 0
    THEN TriggerUnmatched(fsm, state_name)
    ELSE [current_state |-> init_trans_events[row].dst_state,
          current_event |-> fsm.current_event,
          ret           |-> TriggerReturn(init_trans_events[row].src_state),
          matched       |-> TRUE]

trigger(fsm, state_name) ==
    LET row == TriggerRow(state_name, fsm.current_state) IN
    IF row = 0
    THEN TriggerUnmatched(fsm, state_name)
    ELSE [current_state |-> init_trans_events[row].dst_state,
          current_event |-> init_trans_events[row].name,
          ret           |-> TriggerReturn(init_trans_events[row].src_state),
          matched       |-> TRUE]

(***************************************************************************)
(* TransFsm::reset_fsm_state                                               *)
(***************************************************************************)
reset_fsm_state_no_query(fsm) ==
    [current_state |-> "TransDummyState", current_event |-> "DummyEvent",
     ret |-> FALSE, matched |-> FALSE]

reset_fsm_state(fsm) ==
    trigger([current_state |-> "TransDummyState", current_event |-> "DummyEvent"],
            "QueryEvent")

(***************************************************************************)
(* Connections and the pool.  A pooled connection is a record of an id and *)
(* the endpoint address it is connected to.  The pool (conn_pool) is a     *)
(* black box to the FSM: a request for an endpoint yields either a         *)
(* connection to that endpoint that nobody else owns, or an error.  The    *)
(* pool is handed to TransFsm::new without a factory (Pool::new(size));    *)
(* rebuild_conn_with_session, which is given no endpoint, yields a         *)
(* connection built by the factory, or an error.                           *)
(***************************************************************************)
EndpointAddrs == {"127.0.0.1:3306", "127.0.0.2:3306"}

PoolConn(i, addr) == [id |-> i, endpoint |-> addr]

Range(f) == {f[i] : i \in DOMAIN f}

\* The ids no live connection (one owned by the FSM, by the driver task or by the
\* suspended call) carries.
FreeIds ==
    (1..MaxConns) \ {c.id : c \in held \cup Range(client_conn) \cup Range(shard_cache_conn)
                                    \cup Range(call.conn)}

\* Pool::get_conn_with_endpoint_session: the connections the pool may hand out
\* (none when the pool is exhausted).  A new connection takes the least free id:
\* ids only tell connections apart.
PoolOffers(addr) ==
    IF FreeIds = {} THEN {} ELSE {PoolConn(SetMin(FreeIds), addr)}

\* What stands for "no connection" where a connection is expected.
NoConn == [id |-> 0, endpoint |-> ""]

\* Option::take: the value taken and what the option holds afterwards.
take_peek(opt) == [value |-> opt, rest |-> opt]

take(opt) == [value |-> opt, rest |-> <<>>]

\* Option assignment Some(conn).
some_append(opt, conn) == Append(opt, conn)

some(opt, conn) == <<conn>>

\* std::mem::replace(&mut v, Vec::new()): the old vector and the new contents.
mem_replace_keep(v) == [value |-> v, rest |-> v]

mem_replace(v) == [value |-> v, rest |-> <<>>]

\* The sequences without repetition over a set of connections.
RECURSIVE SeqsOver(_)
SeqsOver(S) ==
    {<<>>} \cup UNION {{<<c>> \o t : t \in SeqsOver(S \ {c})} : c \in S}

(***************************************************************************)
(* The record of the last call.  pc is "returned", "dropped" (the future   *)
(* was dropped while suspended) or the await point the call is suspended   *)
(* at: "pool" (get_conn_with_endpoint_session), "is_ready" or "rebuild"    *)
(* (rebuild_conn_with_session); conn is the connection the suspended call  *)
(* has in hand.                                                            *)
(***************************************************************************)
NoCall ==
    [op |-> "new", event |-> "DummyEvent", src_state |-> "TransDummyState",
     src_event |-> "DummyEvent", matched |-> FALSE, ret |-> FALSE,
     endpoint |-> "", cached |-> <<>>, conns_in |-> <<>>, conns_out |-> <<>>,
     ok |-> TRUE, pool_asked |-> FALSE, pc |-> "returned", conn |-> <<>>]

\* The driver task is suspended in a call: a call takes the task's whole attention
\* (the future of get_conn_with_endpoint borrows the FSM mutably), so nothing else is
\* called on the FSM until the call returns or its future is dropped.
Suspended == call.pc \in {"pool", "is_ready", "rebuild"}

FsmCall(op, e, r) ==
    [NoCall EXCEPT !.op = op, !.event = e, !.src_state = current_state,
                   !.src_event = current_event, !.matched = r.matched, !.ret = r.ret]

ConnCall(op, addr, cached, in, out, ok, asked) ==
    [NoCall EXCEPT !.op = op, !.endpoint = addr, !.cached = cached, !.conns_in = in,
                   !.conns_out = out, !.ok = ok, !.pool_asked = asked]

(***************************************************************************)
(* The lifecycle scripts: the event sequence of the documented session     *)
(* scenario (from Dummy) and that of test_trigger (from Use), with the     *)
(* state each step is stated to lead to.                                   *)
(***************************************************************************)
ScriptEvents(start) ==
    IF start = "TransDummyState"
    THEN <<"QueryEvent", "StartEvent", "PrepareEvent", "SendLongDataEvent",
           "ExecuteEvent", "CommitRollBackEvent">>
    ELSE <<"QueryEvent", "SetSessionEvent", "StartEvent", "PrepareEvent",
           "SendLongDataEvent", "ExecuteEvent", "CommitRollBackEvent">>

ScriptStates(start) ==
    IF start = "TransDummyState"
    THEN <<"TransDummyState", "TransStartState", "TransPrepareState",
           "TransPrepareState", "TransPrepareState", "TransDummyState">>
    ELSE <<"TransUseState", "TransSetSessionState", "TransStartState",
           "TransPrepareState", "TransPrepareState", "TransPrepareState",
           "TransDummyState">>

NoScript == [start |-> "", pos |-> 0]

\* The script position after event e is triggered in state src.
ScriptStep(e, src) ==
    IF /\ script.pos > 0
       /\ script.pos < Len(ScriptEvents(script.start))
       /\ ScriptEvents(script.start)[script.pos + 1] = e
    THEN [script EXCEPT !.pos = script.pos + 1]
    ELSE IF e = "QueryEvent" /\ src \in {"TransDummyState", "TransUseState"}
         THEN [start |-> src, pos |-> 1]
         ELSE NoScript

(***************************************************************************)
(* The operations of a TransFsm.                                           *)
(***************************************************************************)
Fields == [current_state |-> current_state, current_event |-> current_event]

\* TransFsm::new
InitFsm ==
    /\ current_state = "TransDummyState"
    /\ current_event = "DummyEvent"
    /\ client_conn = <<>>
    /\ shard_cache_conn = <<>>
    /\ session = [db |-> <<>>, charset |-> "utf8mb4", autocommit |-> <<>>]
    /\ pool_factory = <<>>
    /\ held = {}
    /\ panicked = FALSE
    /\ call = NoCall
    /\ script = NoScript

\* The FSM on its own: no rewriter is in play.
Init ==
    /\ InitFsm
    /\ sharding_rewrite = <<>>
    /\ build = "release"
    /\ rw_call = <<>>
    /\ calls = 0
    /\ sets = 0

Trigger(e) ==
    /\ ~panicked
    /\ ~Suspended
    /\ LET r == trigger(Fields, e) IN
        /\ current_state' = r.current_state
        /\ current_event' = r.current_event
        /\ call' = FsmCall("trigger", e, r)
        /\ script' = ScriptStep(e, current_state)
    /\ UNCHANGED <<client_conn, shard_cache_conn, session, pool_factory, held, panicked>>
    /\ UNCHANGED rw_vars

ResetFsmState ==
    /\ ~panicked
    /\ ~Suspended
    /\ LET r == reset_fsm_state(Fields) IN
        /\ current_state' = r.current_state
        /\ current_event' = r.current_event
        /\ call' = FsmCall("reset_fsm_state", "QueryEvent", r)
        /\ script' = NoScript
    /\ UNCHANGED <<client_conn, shard_cache_conn, session, pool_factory, held, panicked>>
    /\ UNCHANGED rw_vars

\* check_get_conn polled for the first time: the request to the pool is issued and
\* the call is suspended on it (line 71).
CheckGetConn(addr) ==
    /\ ~panicked
    /\ ~Suspended
    /\ call' = [ConnCall("check_get_conn", addr, client_conn, <<>>, <<>>, FALSE, TRUE)
                    EXCEPT !.pc = "pool"]
    /\ UNCHANGED <<current_state, current_event, client_conn, shard_cache_conn, session,
                   pool_factory, held, panicked, script>>
    /\ UNCHANGED rw_vars

\* check_get_conn resumed with the pool's answer (lines 71-72, 78-81): an error is
\* returned, a connection is asked whether it is ready.
CheckGetConnAnswer ==
    /\ call.op = "check_get_conn"
    /\ call.pc = "pool"
    /\ \/ \E c \in PoolOffers(call.endpoint) :
            call' = [call EXCEPT !.pc = "is_ready", !.conn = <<c>>]
       \/ call' = [call EXCEPT !.pc = "returned"]
    /\ UNCHANGED <<current_state, current_event, client_conn, shard_cache_conn, session,
                   pool_factory, held, panicked, script>>
    /\ UNCHANGED rw_vars

\* check_get_conn resumed with the answer of is_ready (lines 73-76): a connection that
\* is ready is returned; for one that is not, the pool is asked to rebuild.
CheckGetConnReady ==
    /\ call.op = "check_get_conn"
    /\ call.pc = "is_ready"
    /\ \/ /\ held' = held \cup Range(call.conn)
          /\ call' = [call EXCEPT !.pc = "returned", !.ok = TRUE, !.conns_out = call.conn,
                                  !.conn = <<>>]
       \/ /\ held' = held
          /\ call' = [call EXCEPT !.pc = "rebuild"]
    /\ UNCHANGED <<current_state, current_event, client_conn, shard_cache_conn, session,
                   pool_factory, panicked, script>>
    /\ UNCHANGED rw_vars

\* check_get_conn resumed with the answer of rebuild_conn_with_session (line 74): what
\* the pool built with its factory is returned, or its error; the connection that was
\* not ready is dropped on return.
CheckGetConnRebuilt ==
    /\ call.op = "check_get_conn"
    /\ call.pc = "rebuild"
    /\ \/ \E c \in IF FreeIds = {} \/ pool_factory = <<>> THEN {}
                    ELSE {PoolConn(SetMin(FreeIds), pool_factory[1])} :
            /\ held' = held \cup {c}
            /\ call' = [call EXCEPT !.pc = "returned", !.ok = TRUE, !.conns_out = <<c>>,
                                    !.conn = <<>>]
       \/ /\ held' = held
          /\ call' = [call EXCEPT !.pc = "returned", !.conn = <<>>]
    /\ UNCHANGED <<current_state, current_event, client_conn, shard_cache_conn, session,
                   pool_factory, panicked, script>>
    /\ UNCHANGED rw_vars

\* get_conn_with_endpoint handing out the cached connection only if it is one to the
\* requested endpoint, and asking the pool otherwise.
GetConnWithEndpointMatching(addr) ==
    /\ ~panicked
    /\ ~Suspended
    /\ IF client_conn # <<>> /\ client_conn[1].endpoint = addr
       THEN /\ client_conn' = <<>>
            /\ held' = held \cup Range(client_conn)
            /\ pool_factory' = pool_factory
            /\ call' = ConnCall("get_conn_with_endpoint", addr, client_conn,
                                <<>>, client_conn, TRUE, FALSE)
       ELSE /\ client_conn' = client_conn
            /\ held' = held
            /\ pool_factory' = <<addr>>
            /\ call' = [ConnCall("get_conn_with_endpoint", addr, client_conn, <<>>, <<>>,
                                 FALSE, TRUE) EXCEPT !.pc = "pool"]
    /\ UNCHANGED <<current_state, current_event, shard_cache_conn, session, panicked, script>>
    /\ UNCHANGED rw_vars

\* get_conn_with_endpoint polled for the first time (lines 404-414): the cached
\* connection is taken and returned; without one the factory of the pool is set,
\* the request to the pool is issued and the call is suspended on it.
GetConnWithEndpoint(addr) ==
    /\ ~panicked
    /\ ~Suspended
    /\ LET conn == take(client_conn) IN
        /\ client_conn' = conn.rest
        /\ IF conn.value # <<>>
           THEN /\ held' = held \cup Range(conn.value)
                /\ pool_factory' = pool_factory
                /\ call' = ConnCall("get_conn_with_endpoint", addr, client_conn,
                                    <<>>, conn.value, TRUE, FALSE)
           ELSE /\ held' = held
                /\ pool_factory' = <<addr>>
                /\ call' = [ConnCall("get_conn_with_endpoint", addr, client_conn, <<>>, <<>>,
                                     FALSE, TRUE) EXCEPT !.pc = "pool"]
    /\ UNCHANGED <<current_state, current_event, shard_cache_conn, session, panicked, script>>
    /\ UNCHANGED rw_vars

\* get_conn_with_endpoint resumed with the pool's answer (lines 414-417).
GetConnWithEndpointAnswer ==
    /\ call.op = "get_conn_with_endpoint"
    /\ call.pc = "pool"
    /\ \/ \E c \in PoolOffers(call.endpoint) :
            /\ held' = held \cup {c}
            /\ call' = [call EXCEPT !.pc = "returned", !.ok = TRUE, !.conns_out = <<c>>]
       \/ /\ held' = held
          /\ call' = [call EXCEPT !.pc = "returned"]
    /\ UNCHANGED <<current_state, current_event, client_conn, shard_cache_conn, session,
                   pool_factory, panicked, script>>
    /\ UNCHANGED rw_vars

\* The future of the suspended call is dropped (the call is cancelled): what the call
\* did up to its await point stays done, the connection it has in hand is dropped.
DropCall ==
    /\ Suspended
    /\ call' = [call EXCEPT !.pc = "dropped", !.conn = <<>>]
    /\ UNCHANGED <<current_state, current_event, client_conn, shard_cache_conn, session,
                   pool_factory, held, panicked, script>>
    /\ UNCHANGED rw_vars

\* Pool::set_factory called by another task that holds the pool, while the driver
\* task is suspended (line 413, in another session).
SetFactory(addr) ==
    /\ Suspended
    /\ pool_factory' = <<addr>>
    /\ UNCHANGED <<current_state, current_event, client_conn, shard_cache_conn, session,
                   held, panicked, call, script>>
    /\ UNCHANGED rw_vars

\* get_conn falling back to the pool on an empty cache instead of unwrapping.
GetConnOrPool ==
    /\ ~panicked
    /\ ~Suspended
    /\ LET conn == take(client_conn) IN
        /\ client_conn' = conn.rest
        /\ panicked' = FALSE
        /\ IF conn.value # <<>>
           THEN /\ held' = held \cup Range(conn.value)
                /\ call' = ConnCall("get_conn", "", client_conn, <<>>, conn.value, TRUE, FALSE)
           ELSE \E c \in PoolOffers(CHOOSE addr \in EndpointAddrs : TRUE) \cup {NoConn} :
                    /\ held' = held \cup ({c} \ {NoConn})
                    /\ call' = ConnCall("get_conn", "", client_conn, <<>>,
                                        IF c = NoConn THEN <<>> ELSE <<c>>, c # NoConn, TRUE)
    /\ UNCHANGED <<current_state, current_event, shard_cache_conn, session, pool_factory,
                   script>>
    /\ UNCHANGED rw_vars

GetConn ==
    /\ ~panicked
    /\ ~Suspended
    /\ LET conn == take(client_conn) IN
        /\ client_conn' = conn.rest
        /\ held' = held \cup Range(conn.value)
        /\ panicked' = (conn.value = <<>>)
        /\ call' = ConnCall("get_conn", "", client_conn, <<>>, conn.value,
                            conn.value # <<>>, FALSE)
    /\ UNCHANGED <<current_state, current_event, shard_cache_conn, session, pool_factory,
                   script>>
    /\ UNCHANGED rw_vars

PutConn(conn) ==
    /\ ~panicked
    /\ ~Suspended
    /\ conn \in held
    /\ client_conn' = some(client_conn, conn)
    /\ held' = held \ {conn}
    /\ call' = ConnCall("put_conn", "", client_conn, <<conn>>, <<>>, TRUE, FALSE)
    /\ UNCHANGED <<current_state, current_event, shard_cache_conn, session, pool_factory,
                   panicked, script>>
    /\ UNCHANGED rw_vars

GetShardConn ==
    /\ ~panicked
    /\ ~Suspended
    /\ LET conns == mem_replace(shard_cache_conn) IN
        /\ shard_cache_conn' = conns.rest
        /\ held' = held \cup Range(conns.value)
        /\ call' = ConnCall("get_shard_conn", "", shard_cache_conn, <<>>, conns.value,
                            TRUE, FALSE)
    /\ UNCHANGED <<current_state, current_event, client_conn, session, pool_factory,
                   panicked, script>>
    /\ UNCHANGED rw_vars

PutShardConn(conns) ==
    /\ ~panicked
    /\ ~Suspended
    /\ shard_cache_conn' = conns
    /\ held' = held \ Range(conns)
    /\ call' = ConnCall("put_shard_conn", "", shard_cache_conn, conns, <<>>, TRUE, FALSE)
    /\ UNCHANGED <<current_state, current_event, client_conn, session, pool_factory,
                   panicked, script>>
    /\ UNCHANGED rw_vars

\* TransFsm::set_db
SetDb(db) ==
    /\ ~panicked
    /\ ~Suspended
    /\ session' = [session EXCEPT !.db = db]
    /\ call' = ConnCall("set_db", "", client_conn, <<>>, <<>>, TRUE, FALSE)
    /\ UNCHANGED <<current_state, current_event, client_conn, shard_cache_conn,
                   pool_factory, held, panicked, script>>
    /\ UNCHANGED rw_vars

\* TransFsm::set_charset
SetCharset(name) ==
    /\ ~panicked
    /\ ~Suspended
    /\ session' = [session EXCEPT !.charset = name]
    /\ call' = ConnCall("set_charset", "", client_conn, <<>>, <<>>, TRUE, FALSE)
    /\ UNCHANGED <<current_state, current_event, client_conn, shard_cache_conn,
                   pool_factory, held, panicked, script>>
    /\ UNCHANGED rw_vars

\* TransFsm::set_autocommit
SetAutocommit(status) ==
    /\ ~panicked
    /\ ~Suspended
    /\ session' = [session EXCEPT !.autocommit = <<status>>]
    /\ call' = ConnCall("set_autocommit", "", client_conn, <<>>, <<>>, TRUE, FALSE)
    /\ UNCHANGED <<current_state, current_event, client_conn, shard_cache_conn,
                   pool_factory, held, panicked, script>>
    /\ UNCHANGED rw_vars

Next ==
    \/ \E e \in TransEventName : Trigger(e)
    \/ ResetFsmState

\* The session triggers events and resets the machine.
Spec == Init /\ [][Next]_vars

NextConn ==
    \/ \E addr \in EndpointAddrs : CheckGetConn(addr)
    \/ CheckGetConnAnswer
    \/ CheckGetConnReady
    \/ CheckGetConnRebuilt
    \/ \E addr \in EndpointAddrs : GetConnWithEndpoint(addr)
    \/ GetConnWithEndpointAnswer
    \/ DropCall
    \/ \E addr \in EndpointAddrs : SetFactory(addr)
    \/ GetConn
    \/ \E conn \in held : PutConn(conn)
    \/ GetShardConn
    \/ \E conns \in SeqsOver(held) : PutShardConn(conns)
    \/ \E db \in {<<>>, <<"db">>} : SetDb(db)
    \/ SetCharset("latin1")
    \/ SetAutocommit("ON")

\* The session's driver task takes and puts connections and sets the session
\* attributes; a call that awaits the pool is resumed with the pool's answer or
\* dropped, and other tasks act on the pool while it is suspended.
SpecConn == Init /\ [][NextConn]_vars

(***************************************************************************)
(* Properties of trigger and reset_fsm_state (under Spec).                 *)
(***************************************************************************)
\* The table has a row for event e with source state s.
HasRow(e, s) ==
    \E i \in DOMAIN init_trans_events :
        init_trans_events[i].name = e /\ init_trans_events[i].src_state = s

Triggered == call.op = "trigger"

\* C1: trigger(e) called in state s returns true iff s is Dummy and the table has
\* a row (e, Dummy); it returns false when s is not Dummy or no row matches (e, s).
C1_TriggerReturnsTrueIffDummyRow ==
    Triggered =>
        (call.ret <=> (call.src_state = "TransDummyState"
                       /\ HasRow(call.event, "TransDummyState")))

C1_Witness ==
    /\ Triggered
    /\ call.event = "StartEvent"
    /\ call.src_state = "TransDummyState"
    /\ call.ret

\* C2: trigger(e) in a state s with no row (e, s) is a no-op: current_state and
\* current_event keep their previous values and the call returns false, after any
\* sequence of earlier events.
C2_UnmatchedTriggerIsNoOp ==
    (Triggered /\ ~HasRow(call.event, call.src_state)) =>
        /\ current_state = call.src_state
        /\ current_event = call.src_event
        /\ call.ret = FALSE

C2_Witness ==
    /\ Triggered
    /\ call.event = "UseEvent"
    /\ call.src_state = "TransPrepareState"
    /\ call.src_event = "ExecuteEvent"
    /\ current_event = "ExecuteEvent"

\* The source states from which each of USE, SET_SESSION, START and PREPARE moves
\* the machine, and the state it moves to.
C3_Sources(e) ==
    CASE e = "UseEvent"        -> {"TransDummyState", "TransUseState"}
      [] e = "SetSessionEvent" -> {"TransDummyState", "TransUseState", "TransSetSessionState"}
      [] e = "StartEvent"      -> {"TransDummyState", "TransUseState", "TransSetSessionState"}
      [] e = "PrepareEvent"    -> {"TransDummyState", "TransUseState", "TransStartState"}

C3_Target(e) ==
    CASE e = "UseEvent"        -> "TransUseState"
      [] e = "SetSessionEvent" -> "TransSetSessionState"
      [] e = "StartEvent"      -> "TransStartState"
      [] e = "PrepareEvent"    -> "TransPrepareState"

\* C3: USE moves to Use exactly from Dummy or Use, SET_SESSION to SetSession exactly
\* from Dummy, Use or SetSession, START to Start exactly from Dummy, Use or
\* SetSession, PREPARE to Prepare exactly from Dummy, Use or Start; from every
\* other source state each of the four leaves the state unchanged.
C3_SessionEventsMoveExactlyFromTheirSources ==
    (Triggered /\ call.event \in {"UseEvent", "SetSessionEvent", "StartEvent", "PrepareEvent"}) =>
        IF call.src_state \in C3_Sources(call.event)
        THEN current_state = C3_Target(call.event)
        ELSE current_state = call.src_state

C3_Witness ==
    /\ Triggered
    /\ call.event = "PrepareEvent"
    /\ call.src_state = "TransSetSessionState"
    /\ current_state = "TransSetSessionState"

PrepareTerminators == {"CloseEvent", "ResetEvent", "DropEvent", "CommitRollBackEvent"}

\* The rows of C4: what the events of a prepared statement do.
C4_Rows ==
    Triggered =>
        /\ (call.src_state = "TransPrepareState"
              /\ call.event \in {"SendLongDataEvent", "ExecuteEvent"})
            => current_state = "TransPrepareState"
        /\ (call.src_state = "TransPrepareState" /\ call.event \in PrepareTerminators)
            => current_state = "TransDummyState"
        /\ (call.src_state \in {"TransStartState", "TransDummyState"}
              /\ call.event = "CommitRollBackEvent")
            => current_state = "TransDummyState"

\* A trigger of an event other than CLOSE, RESET, DROP, COMMIT_ROLLBACK in Prepare.
C4_StaysPrepared ==
    (current_state = "TransPrepareState" /\ call'.op = "trigger"
        /\ call'.event \notin PrepareTerminators)
    => current_state' = "TransPrepareState"

\* C4: in Prepare, SEND_LONG_DATA and EXECUTE keep Prepare and CLOSE, RESET, DROP,
\* COMMIT_ROLLBACK move to Dummy; COMMIT_ROLLBACK also moves Start to Dummy and keeps
\* Dummy; so once Prepare is entered the state stays Prepare under every event
\* sequence until one of CLOSE, RESET, DROP, COMMIT_ROLLBACK is triggered.
C4_PrepareHoldsUntilTerminated == [](C4_Rows) /\ [][C4_StaysPrepared]_vars

C4_Witness ==
    /\ Triggered
    /\ call.src_state = "TransPrepareState"
    /\ call.event = "QueryEvent"
    /\ call.src_event = "SendLongDataEvent"
    /\ current_state = "TransPrepareState"

\* C5: trigger advances to the destination of the first matching row in table order
\* and to no other; QUERY keeps Dummy, Use and SetSession, and the later row
\* QUERY SetSession->Dummy never takes effect.
C5_FirstMatchingRowDecides ==
    Triggered =>
        /\ \/ /\ ~HasRow(call.event, call.src_state)
              /\ current_state = call.src_state
           \/ \E i \in DOMAIN init_trans_events :
                /\ init_trans_events[i].name = call.event
                /\ init_trans_events[i].src_state = call.src_state
                /\ \A j \in 1..(i - 1) :
                      ~(init_trans_events[j].name = call.event
                        /\ init_trans_events[j].src_state = call.src_state)
                /\ current_state = init_trans_events[i].dst_state
        /\ (call.event = "QueryEvent"
              /\ call.src_state \in {"TransDummyState", "TransUseState", "TransSetSessionState"})
            => current_state = call.src_state

C5_Witness ==
    /\ Triggered
    /\ call.event = "QueryEvent"
    /\ call.src_state = "TransSetSessionState"
    /\ current_state = "TransSetSessionState"

\* C6: the lifecycle runs as stated: from Dummy, QUERY keeps Dummy and returns true,
\* START leads to Start, PREPARE to Prepare, SEND_LONG_DATA and EXECUTE keep Prepare,
\* COMMIT_ROLLBACK returns to Dummy; from Use, QUERY keeps Use, SET_SESSION leads to
\* SetSession, START to Start and the same tail follows; and after every matched
\* trigger(e) current_event is e.
C6_LifecycleRunsAsStated ==
    /\ script.pos > 0 =>
        /\ current_state = ScriptStates(script.start)[script.pos]
        /\ current_event = ScriptEvents(script.start)[script.pos]
        /\ (script.start = "TransDummyState" /\ script.pos = 1) => call.ret
    /\ (Triggered /\ HasRow(call.event, call.src_state)) => current_event = call.event

C6_Witness ==
    /\ script = [start |-> "TransDummyState", pos |-> 6]
    /\ current_state = "TransDummyState"
    /\ current_event = "CommitRollBackEvent"

\* A trigger, right after reset_fsm_state, of an event that has a row from Dummy.
C7_NextTriggerReturnsTrue ==
    (call.op = "reset_fsm_state" /\ call'.op = "trigger"
        /\ HasRow(call'.event, "TransDummyState"))
    => call'.ret

\* C7: reset_fsm_state, called in any state, leaves the machine in Dummy with the
\* QUERY event re-triggered (current_event = QueryEvent), so that the next trigger
\* of an event matched from Dummy returns true.
C7_ResetLeavesDummyWithQuery ==
    /\ [](call.op = "reset_fsm_state" =>
            (current_state = "TransDummyState" /\ current_event = "QueryEvent"))
    /\ [][C7_NextTriggerReturnsTrue]_vars

C7_Witness ==
    /\ call.op = "reset_fsm_state"
    /\ call.src_state = "TransPrepareState"
    /\ current_state = "TransDummyState"
    /\ current_event = "QueryEvent"

(***************************************************************************)
(* Properties of the connection caches (under SpecConn).                   *)
(***************************************************************************)
PrimaryTakes == {"get_conn_with_endpoint", "get_conn"}

\* No connection is owned twice: by both caches, twice by the shard cache, or by a
\* cache and the driver task.
C8_NoDuplication ==
    /\ Len(client_conn) <= 1
    /\ held \cap (Range(client_conn) \cup Range(shard_cache_conn)) = {}
    /\ Range(client_conn) \cap Range(shard_cache_conn) = {}
    /\ \A i, j \in DOMAIN shard_cache_conn :
          i # j => shard_cache_conn[i] # shard_cache_conn[j]

\* A take leaves its cache empty and hands out exactly what was cached.
C8_TakeEmptiesCache ==
    /\ call.op \in PrimaryTakes =>
          /\ client_conn = <<>>
          /\ call.cached # <<>> => call.conns_out = call.cached
          /\ Range(call.conns_out) \subseteq held
    /\ call.op = "get_shard_conn" =>
          /\ shard_cache_conn = <<>>
          /\ call.conns_out = call.cached
          /\ Range(call.conns_out) \subseteq held

\* A take right after a put returns what was put.
C8_PutThenTake ==
    /\ (call.op = "put_conn" /\ call'.op \in PrimaryTakes)
          => call'.conns_out = call.conns_in
    /\ (call.op = "put_shard_conn" /\ call'.op = "get_shard_conn")
          => call'.conns_out = call.conns_in

\* C8: after any sequence of get_conn_with_endpoint, get_conn, put_conn,
\* get_shard_conn and put_shard_conn calls the FSM holds at most one primary
\* connection, no connection is held by a cache and by the caller at once, every
\* take leaves its cache empty and hands out exactly what was cached, and a put
\* followed by a take returns the same connection(s).
C8_TakePutMoveOwnership ==
    [](C8_NoDuplication /\ C8_TakeEmptiesCache) /\ [][C8_PutThenTake]_vars

C8_Witness ==
    /\ call.op = "get_conn_with_endpoint"
    /\ call.cached # <<>>
    /\ call.conns_out = call.cached
    /\ call.endpoint # call.cached[1].endpoint
    /\ client_conn = <<>>
    /\ Len(shard_cache_conn) = 1

(***************************************************************************)
(*                     THE SHARDING REWRITER                               *)
(*                                                                         *)
(* SQL text is held in strings; a span is [start, len] with a 0-based byte *)
(* start, as mysql_parser::Span.  A string literal of this language cannot *)
(* hold the backquote character, so the model writes the SQL backquote as  *)
(* the character BT (a caret), which occurs nowhere else in the SQL here.  *)
(*                                                                         *)
(* u64 values are held as integers: a value v < 2^63 as v itself, and a    *)
(* value 2^64 - k (what a negative i64 -k becomes under "as u64") as -k.   *)
(* usize arithmetic on them is the arithmetic modulo 2^64 of the release   *)
(* build; where it would overflow, the debug build panics instead.         *)
(***************************************************************************)
BT == "^"

Span(start, len) == [start |-> start, len |-> len]

\* The i-th character (1-based) of a string, as a string.
CharAt(str, i) == SubSeq(str, i, i)

\* str.contains(pat) for a one-character pattern.
Contains(str, ch) == \E i \in 1..Len(str) : CharAt(str, i) = ch

\* str.replace(ch, "") for a one-character pattern.
RECURSIVE StripChar(_, _)
StripChar(str, ch) ==
    IF str = "" THEN ""
    ELSE (IF CharAt(str, 1) = ch THEN "" ELSE CharAt(str, 1))
            \o StripChar(SubSeq(str, 2, Len(str)), ch)

\* str.to_ascii_uppercase()
RECURSIVE to_ascii_uppercase(_)
to_ascii_uppercase(str) ==
    LET lower == "abcdefghijklmnopqrstuvwxyz"
        upper == "ABCDEFGHIJKLMNOPQRSTUVWXYZ"
        ch    == CharAt(str, 1)
        up    == IF \E i \in 1..26 : CharAt(lower, i) = ch
                 THEN CharAt(upper, CHOOSE i \in 1..26 : CharAt(lower, i) = ch)
                 ELSE ch
    IN
    IF str = "" THEN ""
    ELSE up \o to_ascii_uppercase(SubSeq(str, 2, Len(str)))

DecimalDigits == "0123456789"

DigitValue(ch) == (CHOOSE i \in 1..10 : CharAt(DecimalDigits, i) = ch) - 1

IsDigits(str) ==
    str # "" /\ \A i \in 1..Len(str) : \E d \in 1..10 : CharAt(DecimalDigits, d) = CharAt(str, i)

\* The decimal numeral of a natural number.
RECURSIVE Decimal(_)
Decimal(n) ==
    IF n < 10 THEN CharAt(DecimalDigits, n + 1)
    ELSE Decimal(n \div 10) \o CharAt(DecimalDigits, (n % 10) + 1)

\* The value of a string of digits.
RECURSIVE DigitsValue(_)
DigitsValue(str) ==
    IF str = "" THEN 0
    ELSE DigitsValue(SubSeq(str, 1, Len(str) - 1)) * 10 + DigitValue(CharAt(str, Len(str)))

RECURSIVE StripLeadingZeros(_)
StripLeadingZeros(str) ==
    IF Len(str) > 1 /\ CharAt(str, 1) = "0"
    THEN StripLeadingZeros(SubSeq(str, 2, Len(str)))
    ELSE str

\* Numerals of equal length compared digit by digit: a > b.
RECURSIVE NumeralGreater(_, _)
NumeralGreater(a, b) ==
    IF a = "" THEN FALSE
    ELSE IF DigitValue(CharAt(a, 1)) # DigitValue(CharAt(b, 1))
         THEN DigitValue(CharAt(a, 1)) > DigitValue(CharAt(b, 1))
         ELSE NumeralGreater(SubSeq(a, 2, Len(a)), SubSeq(b, 2, Len(b)))

\* A string of digits denotes a number above the numeral max.
ExceedsNumeral(digits, max) ==
    LET d == StripLeadingZeros(digits) IN
    \/ Len(d) > Len(max)
    \/ Len(d) = Len(max) /\ NumeralGreater(d, max)

ParseOk(v) == [ok |-> TRUE, val |-> v, err |-> ""]
ParseErr(e) == [ok |-> FALSE, val |-> 0, err |-> e]

\* str.parse::<u64>()
parse_u64(str) ==
    LET digits == IF str # "" /\ CharAt(str, 1) = "+" THEN SubSeq(str, 2, Len(str)) ELSE str IN
    IF ~IsDigits(digits) \/ ExceedsNumeral(digits, "18446744073709551615")
    THEN ParseErr("ParseIntError")
    ELSE ParseOk(DigitsValue(digits))

\* The element of a one-element set: The({e : x \in {v}}) is e with x bound to v.
The(S) == CHOOSE x \in S : TRUE

\* str.parse::<i64>()
parse_i64(str) ==
    LET neg    == str # "" /\ CharAt(str, 1) = "-"
        signed == str # "" /\ CharAt(str, 1) \in {"-", "+"}
        digits == IF signed THEN SubSeq(str, 2, Len(str)) ELSE str
    IN
    IF ~IsDigits(digits) \/ ExceedsNumeral(digits, IF neg THEN "9223372036854775808"
                                             ELSE "9223372036854775807")
    THEN ParseErr("ParseIntError")
    ELSE ParseOk(IF neg THEN 0 - DigitsValue(digits) ELSE DigitsValue(digits))

\* str.parse::<f64>().  An f64 is held as its IEEE 754 fields [neg, exp, frac]: the
\* sign, the biased exponent 0..2047 and the 52 fraction bits, most significant
\* first.  The decimal is converted exactly and rounded to nearest, ties to even.
parse_f64(str) ==
    LET neg     == str # "" /\ CharAt(str, 1) = "-"
        signed  == str # "" /\ CharAt(str, 1) \in {"-", "+"}
        body    == IF signed THEN SubSeq(str, 2, Len(str)) ELSE str
        upper   == to_ascii_uppercase(body)
        es      == {i \in 1..Len(upper) : CharAt(upper, i) = "E"}
        epos    == IF es = {} THEN Len(body) + 1 ELSE SetMin(es)
        number  == SubSeq(body, 1, epos - 1)
        exptxt  == SubSeq(body, epos + 1, Len(body))
        eneg    == exptxt # "" /\ CharAt(exptxt, 1) = "-"
        esigned == exptxt # "" /\ CharAt(exptxt, 1) \in {"-", "+"}
        edigits == IF esigned THEN SubSeq(exptxt, 2, Len(exptxt)) ELSE exptxt
        dots    == {i \in 1..Len(number) : CharAt(number, i) = "."}
        dot     == IF dots = {} THEN Len(number) + 1 ELSE SetMin(dots)
        whole   == SubSeq(number, 1, dot - 1)
        frac    == SubSeq(number, dot + 1, Len(number))
        Zeros   == [i \in 1..52 |-> 0]
        F64(e, f) == ParseOk([neg |-> neg, exp |-> e, frac |-> f])
        \* the decimal is digits * 10^exp10; an exponent beyond five digits saturates
        digits  == StripLeadingZeros(whole \o frac)
        evalue  == IF es = {} THEN 0
                   ELSE IF Len(StripLeadingZeros(edigits)) > 5 THEN 99999
                   ELSE DigitsValue(StripLeadingZeros(edigits))
        exp10   == (IF eneg THEN 0 - evalue ELSE evalue) - Len(frac)
        \* naturals of any size: the limbs of base 10000, least significant first,
        \* without a leading zero limb
        Base    == 10000
        RECURSIVE Limbs(_)
        Limbs(ds) ==
            IF Len(ds) <= 4 THEN <<DigitsValue(ds)>>
            ELSE <<DigitsValue(SubSeq(ds, Len(ds) - 3, Len(ds)))>>
                    \o Limbs(SubSeq(ds, 1, Len(ds) - 4))
        RECURSIVE Trim(_)
        Trim(a) == IF a # <<>> /\ a[Len(a)] = 0 THEN Trim(SubSeq(a, 1, Len(a) - 1)) ELSE a
        RECURSIVE Mul(_, _, _)
        Mul(a, k, c) ==
            IF a = <<>> THEN (IF c = 0 THEN <<>> ELSE <<c>>)
            ELSE <<(k * a[1] + c) % Base>> \o Mul(Tail(a), k, (k * a[1] + c) \div Base)
        \* twice a: a limb receives a carry exactly when the limb below is Base / 2
        \* or more
        Double(a) ==
            [i \in 1..(Len(a) + IF a # <<>> /\ 2 * a[Len(a)] >= Base THEN 1 ELSE 0) |->
                ((IF i <= Len(a) THEN 2 * a[i] ELSE 0)
                    + (IF i > 1 /\ 2 * a[i - 1] >= Base THEN 1 ELSE 0)) % Base]
        Ge(a, b) ==
            IF Len(a) # Len(b) THEN Len(a) > Len(b)
            ELSE The({ top = 0 \/ a[top] > b[top] :
                       top \in {SetMax({0} \cup {i \in 1..Len(a) : a[i] # b[i]})} })
        RECURSIVE Sub(_, _, _)
        Sub(a, b, borrow) ==
            IF a = <<>> THEN <<>>
            ELSE LET d == a[1] - (IF b = <<>> THEN 0 ELSE b[1]) - borrow IN
                 <<IF d < 0 THEN d + Base ELSE d>>
                    \o Sub(Tail(a), IF b = <<>> THEN <<>> ELSE Tail(b), IF d < 0 THEN 1 ELSE 0)
        Shifted(a, e10) ==
            [i \in 1..(e10 \div 4) |-> 0] \o Mul(a, 10 ^ (e10 % 4), 0)
        \* the value is n / m * 2^e; scale to m <= n < 2m, or to e = -1022 (subnormal)
        Step(s) ==
            The({ IF Ge(s.n, twice) THEN [n |-> s.n, m |-> twice, e |-> s.e + 1]
                  ELSE IF ~Ge(s.n, s.m) /\ s.e > -1022
                       THEN [n |-> Double(s.n), m |-> s.m, e |-> s.e - 1]
                       ELSE s : twice \in {Double(s.m)} })
        \* the loops run in rounds of twelve, which keeps the evaluation shallow
        RECURSIVE Steps(_, _)
        Steps(s, k) ==
            IF k = 0 THEN s
            ELSE The({ IF t = s THEN s ELSE Steps(t, k - 1) : t \in {Step(s)} })
        RECURSIVE Rounds(_, _)
        Rounds(s, k) ==
            The({ IF k = 0 \/ Step(t) = t THEN t ELSE Rounds(t, k - 1) : t \in {Steps(s, 12)} })
        RECURSIVE Scaled(_, _)
        Scaled(s, k) ==
            The({ IF k = 0 \/ Step(t) = t THEN t ELSE Scaled(t, k - 1) : t \in {Rounds(s, 12)} })
        \* one more bit of s.n / m < 1, and what is left of s.n
        Bit(s, m) ==
            The({ IF Ge(d, m) THEN [bits |-> Append(s.bits, 1), n |-> Trim(Sub(d, m, 0))]
                  ELSE [bits |-> Append(s.bits, 0), n |-> d] : d \in {Double(s.n)} })
        RECURSIVE Bits(_, _, _)
        Bits(s, m, k) ==
            IF k = 0 \/ Len(s.bits) = 52 THEN s
            ELSE The({ Bits(t, m, k - 1) : t \in {Bit(s, m)} })
        RECURSIVE Quotient(_, _, _)
        Quotient(s, m, k) ==
            The({ IF k = 0 \/ Len(t.bits) = 52 THEN t ELSE Quotient(t, m, k - 1) :
                  t \in {Bits(s, m, 13)} })
        \* round to nearest, ties to even: s is the scaled value, r the 52 bits and
        \* the remainder
        Nearest(s, r, field) ==
            The({ IF s.e > 1023 THEN F64(2047, Zeros)
                  ELSE IF ~(Ge(twice, s.m) /\ (twice # s.m \/ r.bits[52] = 1))
                  THEN F64(field, r.bits)
                  ELSE IF low = 0 THEN F64(field + 1, Zeros)
                  ELSE F64(field, [i \in 1..52 |-> IF i < low THEN r.bits[i]
                                                   ELSE IF i = low THEN 1 ELSE 0]) :
                  twice \in {Double(r.n)},
                  low \in {SetMax({0} \cup {i \in 1..52 : r.bits[i] = 0})} })
        Rounded ==
            The({ The({ Nearest(s, r, IF Ge(s.n, s.m) THEN s.e + 1023 ELSE 0) :
                        r \in {Quotient([bits |-> <<>>,
                                         n |-> IF Ge(s.n, s.m) THEN Trim(Sub(s.n, s.m, 0))
                                               ELSE s.n], s.m, 4)} }) :
                  s \in {Scaled([n |-> Shifted(Trim(Limbs(digits)),
                                               IF exp10 > 0 THEN exp10 ELSE 0),
                                 m |-> Shifted(<<1>>, IF exp10 < 0 THEN 0 - exp10 ELSE 0),
                                 e |-> 0], 12)} })
    IN
    IF upper \in {"INF", "INFINITY"} THEN F64(2047, Zeros)
    ELSE IF upper = "NAN" THEN F64(2047, <<1>> \o [i \in 1..51 |-> 0])
    ELSE IF \/ whole = "" /\ frac = ""
            \/ whole # "" /\ ~IsDigits(whole)
            \/ frac # "" /\ ~IsDigits(frac)
            \/ es # {} /\ ~IsDigits(edigits)
    THEN ParseErr("ParseFloatError")
    ELSE IF digits = "0" \/ Len(digits) + exp10 < -330 THEN F64(0, Zeros)
    ELSE IF Len(digits) + exp10 > 310 THEN F64(2047, Zeros)
    ELSE Rounded

\* The numeral of a u64 value (see the representation above).
RECURSIVE ZeroPad(_, _)
ZeroPad(numeral, width) ==
    IF Len(numeral) >= width THEN numeral ELSE ZeroPad("0" \o numeral, width)

\* format!("{:05}", idx): idx is a u64; a value of 2^63 or more is held as the
\* negative integer idx - 2^64 (2^64 = 18446744073709551616).
Pad5(idx) ==
    ZeroPad(IF idx >= 0 THEN Decimal(idx)
            ELSE IF 709551616 + idx >= 0
                 THEN "18446744073" \o ZeroPad(Decimal(709551616 + idx), 9)
            ELSE IF 1709551616 + idx >= 0
                 THEN "18446744072" \o ZeroPad(Decimal(1709551616 + idx), 9)
            ELSE "18446744071" \o ZeroPad(Decimal(1000000000 + (1709551616 + idx)), 9), 5)

(***************************************************************************)
(* Options and IndexMaps.  An Option is a sequence of length <= 1.  An     *)
(* IndexMap<u8, Vec<T>> is the sequence of its entries [k, v] in insertion *)
(* order.                                                                  *)
(***************************************************************************)
None == <<>>
Some(x) == <<x>>

IsSome(opt) == opt # <<>>

\* map.get(&k)
MapGet(map, key) ==
    IF \E i \in DOMAIN map : map[i].k = key
    THEN Some(map[CHOOSE i \in DOMAIN map : map[i].k = key].v)
    ELSE None

\* iter().find(pred): the index of the first element of seq in the set of indexes
\* hits, 0 when there is none.
FirstIndex(hits) == IF hits = {} THEN 0 ELSE SetMin(hits)

\* Flatten a sequence of sequences.
RECURSIVE Flatten(_)
Flatten(seqs) ==
    IF seqs = <<>> THEN <<>> ELSE Head(seqs) \o Flatten(Tail(seqs))

(***************************************************************************)
(* CalcShardingIdx::calc.  The result is [panic, val]: calc returns        *)
(* Some(val) whenever it returns.                                          *)
(***************************************************************************)
Calc(v) == [panic |-> FALSE, val |-> v]
CalcPanic == [panic |-> TRUE, val |-> 0]

\* The 64 bits, most significant first, of the two's complement of an integer:
\* u64::to_be_bytes / i64::to_be_bytes.
to_be_bytes(v) ==
    [i \in 1..64 |-> IF 64 - i >= 31 THEN (IF v < 0 THEN 1 ELSE 0)
                     ELSE (v \div (2 ^ (64 - i))) % 2]

\* The remainder modulo n > 0 of the natural number whose binary numeral is bits
\* (most significant first) followed by `zeros` zero bits: u32::wrapping_rem,
\* u64::wrapping_rem and the f64 remainder of an integral value.
RemBits(bits, zeros, n) ==
    LET AddMod(a, b) == IF a >= n - b THEN a - (n - b) ELSE a + b
        RECURSIVE MulMod(_, _)
        MulMod(a, b) ==
            IF b = 0 THEN 0
            ELSE The({ IF b % 2 = 1 THEN AddMod(AddMod(h, h), a) ELSE AddMod(h, h) :
                       h \in {MulMod(a, b \div 2)} })
        RECURSIVE Pow2Mod(_)
        Pow2Mod(k) ==
            IF k = 0 THEN 1 % n
            ELSE The({ IF k % 2 = 1 THEN AddMod(h, h) ELSE h :
                       h \in {The({ MulMod(g, g) : g \in {Pow2Mod(k \div 2)} })} })
        RECURSIVE Horner(_, _)
        Horner(r, i) ==
            IF i > Len(bits) THEN r
            ELSE The({ Horner(x, i + 1) : x \in {AddMod(AddMod(r, r), bits[i] % n)} })
    IN  IF zeros = 0 THEN Horner(0, 1)
        ELSE The({ MulMod(x, y) : x \in {Horner(0, 1)}, y \in {Pow2Mod(zeros)} })

\* crc32fast::Hasher: new, update with the bytes given as bits (most significant bit
\* of the first byte first), finalize.  The checksum is returned as its 32 bits, most
\* significant first.
crc32(bits) ==
    LET Poly == {31, 30, 29, 27, 26, 24, 23, 21, 20, 19, 15, 9, 8, 5}
        \* the register is a function of the bit weights 0..31
        Shift(reg, b) ==
            LET fb == (reg[0] + b) % 2 IN
            [w \in 0..31 |-> ((IF w = 31 THEN 0 ELSE reg[w + 1])
                                + (IF fb = 1 /\ w \in Poly THEN 1 ELSE 0)) % 2]
        \* the bits of byte k are fed least significant first
        RECURSIVE Update(_, _)
        Update(reg, j) ==
            IF j > Len(bits) THEN reg
            ELSE Update(Shift(reg, bits[8 * ((j - 1) \div 8) + 8 - ((j - 1) % 8)]), j + 1)
        final == Update([w \in 0..31 |-> 1], 1)
    IN  [i \in 1..32 |-> 1 - final[32 - i]]

\* impl CalcShardingIdx<u64> for u64.  A u64 of 2^63 or more is held as the negative
\* integer that has the same 64 bits.  wrapping_rem panics on a divisor of zero and
\* so does the conversion of a sharding_count to u32 that does not fit.
calc_u64(self, algo, sharding_count) ==
    IF algo = "CRC32Mod"
    THEN IF sharding_count <= 0 THEN CalcPanic
         ELSE Calc(RemBits(crc32(to_be_bytes(self)), 0, sharding_count))
    ELSE IF sharding_count = 0 THEN CalcPanic
    ELSE IF sharding_count > 0
         THEN Calc(IF self >= 0 THEN self % sharding_count
                   ELSE RemBits(to_be_bytes(self), 0, sharding_count))
    ELSE Calc(IF self >= 0 \/ self < sharding_count THEN self ELSE self - sharding_count)

\* impl CalcShardingIdx<i64> for i64 (Mod: the remainder cast "as u64")
calc_i64(self, algo, sharding_count) ==
    IF algo = "CRC32Mod"
    THEN IF sharding_count <= 0 THEN CalcPanic
         ELSE Calc(RemBits(crc32(to_be_bytes(self)), 0, sharding_count))
    ELSE IF sharding_count = 0 THEN CalcPanic
    \* i64::wrapping_rem: the remainder has the sign of the dividend
    ELSE LET d == IF sharding_count < 0 THEN 0 - sharding_count ELSE sharding_count IN
         Calc(IF self >= 0 THEN self % d ELSE 0 - ((0 - self) % d))

\* impl CalcShardingIdx<f64> for f64, sharding_count being a u64 cast "as f64".
\* Mod is (self % n).round() as u64: the remainder has the sign of self, round
\* rounds half away from zero and the cast saturates, so a negative or NaN value
\* (self NaN or infinite, or n = 0) becomes 0.  CRC32Mod reduces the checksum of the
\* eight bytes of self in the same way.  A sharding_count of 2^63 or more (held as a
\* negative integer) is cast to the nearest f64, 2^11 * (2^53 - k); a value below it
\* is its own remainder, and the remainder of a greater one is computed on its 53-bit
\* significand, held as the pair <<high 27 bits, low 26 bits>>.
calc_f64(self, algo, sharding_count) ==
    LET e == self.exp - 1023
        RECURSIVE Value(_, _)
        \* the natural number whose binary numeral is bits[1..i]
        Value(bits, i) == IF i = 0 THEN 0 ELSE 2 * Value(bits, i - 1) + bits[i]
        \* round(self) for 0 <= e: the integral part and the half bit
        Round == Value(<<1>> \o self.frac, 1 + (IF e < 52 THEN e ELSE 52))
                    * (2 ^ (IF e > 52 THEN e - 52 ELSE 0))
                    + (IF e < 52 THEN self.frac[e + 1] ELSE 0)
        \* |sharding_count| = 2048 * a + b, 1 <= b <= 2048, rounded to k * 2048, ties to even
        a == (0 - (sharding_count + 1)) \div 2048
        b == ((0 - (sharding_count + 1)) % 2048) + 1
        k == IF b < 1024 \/ (b = 1024 /\ a % 2 = 0) THEN a ELSE a + 1
        D == IF k = 0 THEN <<2 ^ 27, 0>> ELSE <<2 ^ 27 - 1, 2 ^ 26 - k>>
        Red(x) ==
            IF x[1] > D[1] \/ (x[1] = D[1] /\ x[2] >= D[2])
            THEN IF x[2] >= D[2] THEN <<x[1] - D[1], x[2] - D[2]>>
                 ELSE <<x[1] - D[1] - 1, x[2] + 2 ^ 26 - D[2]>>
            ELSE x
        AddMod(x, y) ==
            Red(<<x[1] + y[1] + ((x[2] + y[2]) \div (2 ^ 26)), (x[2] + y[2]) % (2 ^ 26)>>)
        RECURSIVE MulMod(_, _)
        MulMod(x, y) ==
            IF y = <<0, 0>> THEN <<0, 0>>
            ELSE The({ IF y[2] % 2 = 1 THEN AddMod(AddMod(h, h), x) ELSE AddMod(h, h) :
                       h \in {MulMod(x, <<y[1] \div 2, (y[1] % 2) * (2 ^ 25) + (y[2] \div 2)>>)} })
        RECURSIVE Pow2Mod(_)
        Pow2Mod(t) ==
            IF t = 0 THEN <<0, 1>>
            ELSE The({ IF t % 2 = 1 THEN AddMod(h, h) ELSE h :
                       h \in {The({ MulMod(g, g) : g \in {Pow2Mod(t \div 2)} })} })
        \* (self % n) / 2^11 for 63 <= e
        Rem == MulMod(Red(<<Value(<<1>> \o self.frac, 27), Value(SubSeq(self.frac, 27, 52), 26)>>),
                      Pow2Mod(e - 63))
    IN
    IF algo = "CRC32Mod"
    THEN IF sharding_count = 0 THEN Calc(0)
         ELSE The({ IF sharding_count < 0 THEN Calc(Value(checksum, 32))
                    ELSE Calc(RemBits(checksum, 0, sharding_count)) :
                    checksum \in {crc32(<<IF self.neg THEN 1 ELSE 0>>
                                    \o [i \in 1..11 |-> (self.exp \div (2 ^ (11 - i))) % 2]
                                    \o self.frac)} })
    ELSE IF sharding_count = 0 \/ self.exp = 2047 \/ self.neg THEN Calc(0)
    ELSE IF e < -1 THEN Calc(0)
    ELSE IF e = -1 THEN Calc(1)
    ELSE IF sharding_count > 0
    THEN Calc(RemBits(<<1>> \o SubSeq(self.frac, 1, IF e < 52 THEN e ELSE 52),
                      IF e > 52 THEN e - 52 ELSE 0, sharding_count)
                + (IF e < 52 THEN self.frac[e + 1] ELSE 0))
    ELSE IF e < 63 THEN Calc(Round)
    ELSE The({ IF r[1] < 2 ^ 26 THEN Calc((r[1] * (2 ^ 26) + r[2]) * 2048)
               \* 2^63 or more: the negative integer with the same 64 bits
               ELSE Calc((0 - ((2 ^ 27 - 1 - r[1]) * (2 ^ 26) + (2 ^ 26 - r[2]))) * 2048) :
               r \in {Rem} })

(***************************************************************************)
(* Configuration: Sharding rules and endpoints.                            *)
(***************************************************************************)
Endpoint(name, db, addr) == [name |-> name, db |-> db, addr |-> addr]

\* A rule; database_strategy is an Option of a DatabaseStrategyConfig
\* [database_sharding_column, database_sharding_algorithm_name] and table_strategy
\* an Option of a TableStrategyConfig [table_sharding_column,
\* table_sharding_algorithm_name, sharding_count].
Sharding(table_name, actual_datanodes, database_strategy, table_strategy) ==
    [table_name |-> table_name, actual_datanodes |-> actual_datanodes,
     database_strategy |-> database_strategy, table_strategy |-> table_strategy]

\* Sharding::get_sharding_column / get_algo / get_sharding_count: the pair
\* (database strategy's, table strategy's), each an Option.
get_sharding_column(rule) ==
    << IF IsSome(rule.database_strategy)
       THEN Some(rule.database_strategy[1].database_sharding_column) ELSE None,
       IF IsSome(rule.table_strategy)
       THEN Some(rule.table_strategy[1].table_sharding_column) ELSE None >>

get_algo(rule) ==
    << IF IsSome(rule.database_strategy)
       THEN Some(rule.database_strategy[1].database_sharding_algorithm_name) ELSE None,
       IF IsSome(rule.table_strategy)
       THEN Some(rule.table_strategy[1].table_sharding_algorithm_name) ELSE None >>

get_sharding_count(rule) ==
    << IF IsSome(rule.database_strategy)
       THEN Some(Len(rule.actual_datanodes)) ELSE None,
       IF IsSome(rule.table_strategy)
       THEN Some(rule.table_strategy[1].sharding_count) ELSE None >>

\* self.endpoints.iter().find(|e| e.name == node): an Option.
FindEndpoint(endpoints, node) ==
    LET i == FirstIndex({j \in DOMAIN endpoints : endpoints[j].name = node}) IN
    IF i = 0 THEN None ELSE Some(endpoints[i])

(***************************************************************************)
(* rewrite_const                                                           *)
(***************************************************************************)
rewrite_const ==
    [AS |-> "AS",
     COUNT |-> "COUNT",
     SUM |-> "SUM",
     AVG_DERIVED_COUNT |-> "AVG_DERIVED_COUNT",
     AVG_DERIVED_SUM |-> "AVG_DERIVED_SUM",
     ORDER_BY_DERIVED |-> "ORDER_BY_DERIVED",
     GROUP_BY_DERIVED |-> "GROUP_BY_DERIVED",
     AVG_FIELD |-> "avg_field",
     AVG_COUNT |-> "avg_count",
     AVG_SUM |-> "avg_sum",
     ORDER_FIELD |-> "order_field",
     ORDER_TARGET |-> "order_target",
     GROUP_FIELD |-> "group_field",
     GROUP_TARGET |-> "group_target"]

\* IndexMap<String, String>::insert on a map held as a function.
MapInsert(map, key, val) ==
    [k \in DOMAIN map \cup {key} |-> IF k = key THEN val ELSE map[k]]

EmptyMap == [k \in {} |-> ""]

(***************************************************************************)
(* Text edits.  A text operation yields [panic, sql]: String::remove and   *)
(* String::insert_str panic on a position outside the string.              *)
(***************************************************************************)
Text(sql) == [panic |-> FALSE, sql |-> sql]
TextPanic == [panic |-> TRUE, sql |-> ""]

\* for _ in 0..len { sql.remove(at) }; a len below zero is a usize above 2^63 and
\* the loop runs until remove finds the string exhausted.
RemoveRange(sql, at, len) ==
    IF len = 0 THEN Text(sql)
    ELSE IF len < 0 \/ at < 0 \/ at + len > Len(sql) THEN TextPanic
    ELSE Text(SubSeq(sql, 1, at) \o SubSeq(sql, at + len + 1, Len(sql)))

\* sql.insert_str(at, text)
InsertStr(sql, at, text) ==
    IF at < 0 \/ at > Len(sql) THEN TextPanic
    ELSE Text(SubSeq(sql, 1, at) \o text \o SubSeq(sql, at + 1, Len(sql)))

\* ShardingRewrite::change_sql
change_sql(target_sql, span, target, offset) ==
    LET removed == RemoveRange(target_sql, span.start + offset, span.len) IN
    IF removed.panic THEN TextPanic
    ELSE InsertStr(removed.sql, span.start + offset, target)

\* ShardingRewrite::change_table: [panic, target].
change_table(self, table, actual_node, table_idx) ==
    IF ~IsSome(table.schema) /\ ~IsSome(self.default_db)
    THEN [panic |-> TRUE, target |-> ""]
    ELSE
    LET schema == IF IsSome(table.schema) THEN table.schema[1] ELSE self.default_db[1] IN
    [panic |-> FALSE,
     target |->
        IF actual_node = ""
        THEN BT \o schema \o BT \o "." \o
             (IF Contains(table.name, BT)
              THEN BT \o StripChar(table.name, BT) \o "_" \o Pad5(table_idx) \o BT
              ELSE table.name \o "_" \o Pad5(table_idx))
        ELSE (IF Contains(schema, BT) THEN BT \o actual_node \o BT ELSE actual_node)
             \o "." \o table.name]

(***************************************************************************)
(* Metadata of a parsed statement (RewriteMetaData) and the rewriter.      *)
(***************************************************************************)
TableIdent(span, schema, name) == [span |-> span, schema |-> schema, name |-> name]

FieldMetaIdent(span, name, wrap_func) == [span |-> span, name |-> name, wrap_func |-> wrap_func]

\* OrderMeta; a GroupMeta is [name].
OrderMeta(name, direction) == [name |-> name, direction |-> direction]

\* ShardingRewrite::new and the fields set by rewrite().
ShardingRewrite(rules, endpoints, node_group_config, has_rw) ==
    [rules |-> rules, endpoints |-> endpoints, node_group_config |-> node_group_config,
     has_rw |-> has_rw, raw_sql |-> "", default_db |-> None]

\* The outcome of a rewrite: Ok(outputs), Err(e) or a panic.
RwOk(outputs) == [kind |-> "ok", outputs |-> outputs, err |-> ""]
RwErr(e) == [kind |-> "err", outputs |-> <<>>, err |-> e]
RwPanic(why) == [kind |-> "panic", outputs |-> <<>>, err |-> why]

DataSourceEndpoint(ep) == [typ |-> "Endpoint", endpoint |-> ep, name |-> ""]
DataSourceNodeGroup(name) == [typ |-> "NodeGroup", endpoint |-> None, name |-> name]

ShardingRewriteOutput(changes, target_sql, data_source, sharding_column, min_max_fields) ==
    [changes |-> changes, target_sql |-> target_sql, data_source |-> data_source,
     sharding_column |-> sharding_column, min_max_fields |-> min_max_fields]

DatabaseChange(span, target, shard_idx, rule) ==
    [typ |-> "DatabaseChange", span |-> span, target |-> target, shard_idx |-> shard_idx,
     rule |-> rule]

OrderChange(target, direction) ==
    [typ |-> "OrderChange", target |-> target, direction |-> direction]

GroupChange(target) == [typ |-> "GroupChange", target |-> target]

AvgChange(target) == [typ |-> "AvgChange", target |-> target]

\* The entries of an IndexMap<u8, Vec<T>> flattened to [k, x] pairs in order.
RECURSIVE MapItems(_)
MapItems(map) ==
    IF map = <<>> THEN <<>>
    ELSE [i \in 1..Len(Head(map).v) |-> [k |-> Head(map).k, x |-> Head(map).v[i]]]
            \o MapItems(Tail(map))

\* rule.actual_datanodes.iter().find(|x| endpoints.find(..).is_some()), where
\* endpoints.find(pred) runs on the iterator shared by every table reference: the
\* scan resumes after the last endpoint it consumed.
RECURSIVE DatanodesFind(_, _, _, _)
DatanodesFind(self, rule, pos, i) ==
    IF i > Len(rule.actual_datanodes) THEN [found |-> FALSE, pos |-> pos]
    ELSE LET hits == {j \in DOMAIN self.endpoints :
                        /\ j > pos
                        /\ self.endpoints[j].name = rule.actual_datanodes[i]
                        /\ self.default_db[1] = self.endpoints[j].db}
         IN IF hits = {}
            THEN DatanodesFind(self, rule, Len(self.endpoints), i + 1)
            ELSE [found |-> TRUE, pos |-> SetMin(hits)]

\* The closure of find_table_rule on one table reference, with the position of the
\* shared endpoints iterator: [panic, pos, rule, hit].
TableRuleOf(self, meta, pos) ==
    LET name == IF Contains(meta.name, BT) THEN StripChar(meta.name, BT) ELSE meta.name
        at   == FirstIndex({j \in DOMAIN self.rules : self.rules[j].table_name = name})
        rule == IF at = 0 THEN None ELSE Some(self.rules[at])
    IN
    IF ~IsSome(rule) THEN [panic |-> FALSE, pos |-> pos, rule |-> None, hit |-> FALSE]
    ELSE IF ~IsSome(self.default_db)
    THEN [panic |-> FALSE, pos |-> pos,
          rule |-> IF IsSome(meta.schema) THEN rule ELSE None, hit |-> IsSome(meta.schema)]
    ELSE IF self.has_rw
    THEN IF ~IsSome(self.node_group_config)
         THEN [panic |-> TRUE, pos |-> pos, rule |-> None, hit |-> FALSE]
         ELSE LET has_default_db ==
                    \E i \in DOMAIN rule[1].actual_datanodes :
                        \E g \in DOMAIN self.node_group_config[1].members :
                            self.node_group_config[1].members[g].name
                                = rule[1].actual_datanodes[i]
                  hit == IsSome(meta.schema) \/ has_default_db
              IN [panic |-> FALSE, pos |-> pos, rule |-> IF hit THEN rule ELSE None,
                  hit |-> hit]
    ELSE LET r == DatanodesFind(self, rule[1], pos, 1)
             hit == IsSome(meta.schema) \/ r.found
         IN [panic |-> FALSE, pos |-> r.pos, rule |-> IF hit THEN rule ELSE None,
             hit |-> hit]

\* ShardingRewrite::find_table over the flattened table references:
\* [panic, tables], tables the triples [scope, rule, table].
RECURSIVE find_table(_, _, _)
find_table(self, items, pos) ==
    IF items = <<>> THEN [panic |-> FALSE, tables |-> <<>>]
    ELSE The({
         IF r.panic THEN [panic |-> TRUE, tables |-> <<>>]
         ELSE LET rest == find_table(self, Tail(items), r.pos) IN
              IF rest.panic THEN rest
              ELSE [panic |-> FALSE,
                    tables |-> (IF r.hit
                                THEN << [scope |-> Head(items).k, rule |-> r.rule[1],
                                         table |-> Head(items).x] >>
                                ELSE <<>>) \o rest.tables] :
         r \in {TableRuleOf(self, Head(items).x, pos)} })

\* find_table_rule pairing every table reference with the first rule, whatever the
\* reference's name.
find_table_rule_first_rule(self, tables) ==
    [panic |-> FALSE,
     tables |-> IF self.rules = <<>> THEN <<>>
                ELSE [i \in DOMAIN MapItems(tables) |->
                        [scope |-> MapItems(tables)[i].k, rule |-> self.rules[1],
                         table |-> MapItems(tables)[i].x]]]

\* ShardingRewrite::find_table_rule
find_table_rule(self, tables) == find_table(self, MapItems(tables), 0)

(***************************************************************************)
(* Predicate planning.  The outcome of one predicate is [kind, scope, idx,  *)
(* err]: Ok(None), Ok(Some((scope, idx, ..))), Err(err) or a panic.        *)
(***************************************************************************)
WhereNone == [kind |-> "none", scope |-> 0, idx |-> 0, err |-> ""]
WherePanic == [kind |-> "panic", scope |-> 0, idx |-> 0, err |-> "calc"]

\* A parsed literal handed to calc: Ok(Some(..)), Err(..) or a panic.
WhereCalc(parsed, calc, query_id) ==
    IF ~parsed.ok THEN [kind |-> "err", scope |-> 0, idx |-> 0, err |-> parsed.err]
    ELSE IF calc.panic THEN WherePanic
    ELSE [kind |-> "some", scope |-> query_id, idx |-> calc.val, err |-> ""]

\* ShardingRewrite::parse_where
parse_where(meta, algo, sharding_count, query_id, sharding_column) ==
    IF StripChar(meta.left, BT) # sharding_column THEN WhereNone
    ELSE IF meta.right.typ = "Num"
    THEN The({ WhereCalc(val, IF val.ok THEN calc_u64(val.val, algo, sharding_count)
                              ELSE CalcPanic, query_id) :
               val \in {parse_u64(meta.right.val)} })
    ELSE IF meta.right.typ = "SignedNum"
    THEN The({ WhereCalc(val, IF val.ok THEN calc_i64(val.val, algo, sharding_count)
                              ELSE CalcPanic, query_id) :
               val \in {parse_i64(meta.right.val)} })
    ELSE IF meta.right.typ = "FloatNum"
    THEN The({ WhereCalc(val, IF val.ok THEN calc_f64(val.val, algo, sharding_count)
                              ELSE CalcPanic, query_id) :
               val \in {parse_f64(meta.right.val)} })
    ELSE WhereNone

\* The closure that find_try_where hands to find_where, on one predicate.
calc_fn(strategy_typ, try_tables, query_id, meta) ==
    LET i == FirstIndex({j \in DOMAIN try_tables : try_tables[j].scope = query_id}) IN
    IF i = 0 THEN WhereNone
    ELSE LET rule == try_tables[i].rule
             n == IF strategy_typ = "Database" THEN 1 ELSE 2
         IN IF ~IsSome(get_sharding_column(rule)[n]) THEN WherePanic
            ELSE parse_where(meta, get_algo(rule)[n][1], get_sharding_count(rule)[n][1],
                             query_id, get_sharding_column(rule)[n][1])

SeqHas(seq, kind) == \E i \in DOMAIN seq : seq[i].kind = kind

\* ShardingRewrite::find_where: the scopes are evaluated one after the other, every
\* predicate of a scope is evaluated and those that are not Ok(None) are kept, and
\* the collect stops at the first Err.  [kind, wheres, err].
RECURSIVE find_where(_, _, _)
find_where(strategy_typ, try_tables, wheres) ==
    IF wheres = <<>> THEN [kind |-> "ok", wheres |-> <<>>, err |-> ""]
    ELSE LET entry == Head(wheres) IN
         The({ IF SeqHas(here, "panic")
               THEN [kind |-> "panic", wheres |-> <<>>, err |-> "where"]
               ELSE IF SeqHas(here, "err")
               THEN [kind |-> "err", wheres |-> <<>>,
                     err |-> here[SetMin({i \in DOMAIN here : here[i].kind = "err"})].err]
               ELSE LET rest == find_where(strategy_typ, try_tables, Tail(wheres)) IN
                    IF rest.kind # "ok" THEN rest
                    ELSE [kind |-> "ok", wheres |-> here \o rest.wheres, err |-> ""] :
               here \in {SelectSeq([i \in 1..Len(entry.v) |->
                                        calc_fn(strategy_typ, try_tables, entry.k, entry.v[i])],
                                   LAMBDA r : r.kind # "none")} })

\* ShardingRewrite::find_try_where
find_try_where(strategy_typ, try_tables, wheres) ==
    find_where(strategy_typ, try_tables, wheres)

\* wheres.iter().map(|x| x.1 as usize).sum::<usize>() in the release build.
RECURSIVE SumIdx(_)
SumIdx(wheres) ==
    IF wheres = <<>> THEN 0 ELSE wheres[Len(wheres)].idx + SumIdx(SubSeq(wheres, 1, Len(wheres) - 1))

\* The sum overflows usize at some step: the running value and the addend are both
\* of the form 2^64 - k, or one is 2^64 - k and the other is at least k.
RECURSIVE SumOverflows(_)
SumOverflows(wheres) ==
    IF wheres = <<>> THEN FALSE
    ELSE LET init == SubSeq(wheres, 1, Len(wheres) - 1)
             acc == SumIdx(init)
             x == wheres[Len(wheres)].idx
         IN \/ SumOverflows(init)
            \/ acc < 0 /\ x < 0
            \/ (acc < 0 \/ x < 0) /\ acc + x >= 0

(***************************************************************************)
(* Projection edits for ORDER BY, GROUP BY and AVG.                        *)
(***************************************************************************)
\* The concatenation of a sequence of strings.
RECURSIVE Concat(_)
Concat(strs) == IF strs = <<>> THEN "" ELSE Head(strs) \o Concat(Tail(strs))

\* target_sql.insert_str(at, t) for each t of targets in turn: [panic, sql].
RECURSIVE InsertAll(_, _, _)
InsertAll(sql, at, targets) ==
    IF targets = <<>> THEN Text(sql)
    ELSE LET r == InsertStr(sql, at, Head(targets)) IN
         IF r.panic THEN r ELSE InsertAll(r.sql, at, Tail(targets))

\* The ORDER BY / GROUP BY items whose name is not literally the name of a field of
\* the same scope, in the order the loops of change_order_group visit them.
MissingItems(fields, items) ==
    Flatten([e \in DOMAIN fields |->
        IF IsSome(MapGet(items, fields[e].k))
        THEN SelectSeq(MapGet(items, fields[e].k)[1],
                       LAMBDA item : \A f \in DOMAIN fields[e].v : fields[e].v[f].name # item.name)
        ELSE <<>>])

\* The alias of a derived column: {NAME}_{derived}_{idx:05}.
DerivedAlias(name, derived, idx) ==
    to_ascii_uppercase(IF Contains(name, BT) THEN StripChar(name, BT) ELSE name)
        \o "_" \o derived \o "_" \o Pad5(idx)

OrderGroupResult(panic, sql, order, group) ==
    [panic |-> panic, sql |-> sql, order |-> order, group |-> group]

OrderChangeDefault == OrderChange(EmptyMap, "Asc")
GroupChangeDefault == GroupChange(EmptyMap)

\* The first item of items whose name equals the field name, quoting stripped; 0 if none.
MatchItem(field_name, items) ==
    FirstIndex({j \in DOMAIN items :
                    StripChar(field_name, BT) = StripChar(items[j].name, BT)})

\* ShardingRewrite::change_order_group
change_order_group(target_sql, orders, groups, fields, idx) ==
    IF ~IsSome(MapGet(fields, 1))
    THEN OrderGroupResult(FALSE, target_sql, OrderChangeDefault, GroupChangeDefault)
    ELSE
    LET field == MapGet(fields, 1)[1] IN
    IF field = <<>> THEN OrderGroupResult(TRUE, "", OrderChangeDefault, GroupChangeDefault)
    ELSE
    LET last_span  == field[Len(field)].span
        first_span == field[1].span
        len        == last_span.start + last_span.len - first_span.start
        ori_field  == Concat([i \in DOMAIN field |-> field[i].name \o ", "])
        order_panic == orders # <<>> /\ ~IsSome(MapGet(orders, 1))
        group_panic == groups # <<>> /\ ~IsSome(MapGet(groups, 1))
        order1 == IF orders # <<>> /\ ~order_panic THEN MapGet(orders, 1)[1] ELSE <<>>
        group1 == IF groups # <<>> /\ ~group_panic THEN MapGet(groups, 1)[1] ELSE <<>>
        hits   == {i \in DOMAIN field :
                      MatchItem(field[i].name, order1) # 0 \/ MatchItem(field[i].name, group1) # 0}
    IN
    \* len below zero: the subtraction overflows or String::with_capacity(len) refuses
    IF len < 0 THEN OrderGroupResult(TRUE, "", OrderChangeDefault, GroupChangeDefault)
    ELSE IF order_panic THEN OrderGroupResult(TRUE, "", OrderChangeDefault, GroupChangeDefault)
    ELSE IF MatchItem(field[1].name, order1) = 0 /\ group_panic
    THEN OrderGroupResult(TRUE, "", OrderChangeDefault, GroupChangeDefault)
    ELSE IF MatchItem(field[1].name, order1) # 0 \/ (~group_panic /\ hits # {})
    THEN LET i == IF MatchItem(field[1].name, order1) # 0 THEN 1 ELSE SetMin(hits)
             o == MatchItem(field[i].name, order1)
             g == MatchItem(field[i].name, group1)
         IN IF o # 0
            THEN OrderGroupResult(FALSE, target_sql,
                    OrderChange(MapInsert(MapInsert(EmptyMap, rewrite_const.ORDER_FIELD, order1[o].name),
                                          rewrite_const.ORDER_TARGET, ""),
                                order1[o].direction),
                    GroupChangeDefault)
            ELSE OrderGroupResult(FALSE, target_sql, OrderChangeDefault,
                    GroupChange(MapInsert(MapInsert(EmptyMap, rewrite_const.GROUP_FIELD, group1[g].name),
                                          rewrite_const.GROUP_TARGET, "")))
    ELSE
    LET removed == IF orders # <<>> \/ groups # <<>>
                   THEN RemoveRange(target_sql, first_span.start, len)
                   ELSE Text(target_sql)
        omiss == IF orders # <<>> THEN MissingItems(fields, orders) ELSE <<>>
        gmiss == IF groups # <<>> THEN MissingItems(fields, groups) ELSE <<>>
        otargets == [i \in DOMAIN omiss |->
                        ori_field \o omiss[i].name \o " " \o rewrite_const.AS \o " "
                            \o DerivedAlias(omiss[i].name, rewrite_const.ORDER_BY_DERIVED, idx)]
        gtargets == [i \in DOMAIN gmiss |->
                        ori_field \o gmiss[i].name \o " " \o rewrite_const.AS \o " "
                            \o DerivedAlias(gmiss[i].name, rewrite_const.GROUP_BY_DERIVED, idx)]
        inserted == IF removed.panic THEN removed
                    ELSE InsertAll(removed.sql, first_span.start, otargets \o gtargets)
        order_changes ==
            IF omiss = <<>> THEN OrderChangeDefault
            ELSE LET o == omiss[Len(omiss)] IN
                 OrderChange(MapInsert(MapInsert(EmptyMap, rewrite_const.ORDER_TARGET,
                                                 DerivedAlias(o.name, rewrite_const.ORDER_BY_DERIVED, idx)),
                                       rewrite_const.ORDER_FIELD, o.name),
                             o.direction)
        group_changes ==
            IF gmiss = <<>> THEN GroupChangeDefault
            ELSE LET g == gmiss[Len(gmiss)] IN
                 GroupChange(MapInsert(MapInsert(EmptyMap, rewrite_const.GROUP_TARGET,
                                                 DerivedAlias(g.name, rewrite_const.GROUP_BY_DERIVED, idx)),
                                       rewrite_const.GROUP_FIELD, g.name))
    IN IF inserted.panic
       THEN OrderGroupResult(TRUE, "", OrderChangeDefault, GroupChangeDefault)
       ELSE OrderGroupResult(FALSE, inserted.sql, order_changes, group_changes)

\* The loop of change_avg from entry n of avgs on, with the target text and the map
\* built so far: [panic, sql, res].
RECURSIVE change_avg_from(_, _, _, _, _, _, _)
change_avg_from(target_sql, avgs, idx, offset, n, target, res) ==
    IF n > Len(avgs) THEN [panic |-> FALSE, sql |-> target_sql, res |-> res]
    ELSE
    LET avg == avgs[n].v IN
    IF avg = <<>> THEN [panic |-> TRUE, sql |-> "", res |-> res]
    ELSE
    LET last_span  == avg[Len(avg)].span
        first_span == avg[1].span
        len        == last_span.start + last_span.len - first_span.start
        removed    == RemoveRange(target_sql, first_span.start + offset, len)
        \* the aliases of the derived columns of one AvgMeta
        avg_count(avg_meta) ==
            to_ascii_uppercase(avg_meta.field_name) \o "_" \o rewrite_const.AVG_DERIVED_COUNT
                \o "_" \o Pad5(idx)
        avg_sum(avg_meta) ==
            to_ascii_uppercase(avg_meta.field_name) \o "_" \o rewrite_const.AVG_DERIVED_SUM
                \o "_" \o Pad5(idx)
        \* the text appended to target for one AvgMeta
        AvgTarget(avg_meta) ==
            rewrite_const.COUNT \o "(" \o avg_meta.field_name \o ") " \o rewrite_const.AS \o " "
              \o avg_count(avg_meta) \o ", "
              \o rewrite_const.SUM \o "(" \o avg_meta.field_name \o ") " \o rewrite_const.AS \o " "
              \o avg_sum(avg_meta)
              \o (IF avg_meta.span # last_span THEN ", " ELSE "")
        target2    == target \o Concat([i \in DOMAIN avg |-> AvgTarget(avg[i])])
        \* res.insert for each AvgMeta in turn leaves the last one's values
        res2       == MapInsert(MapInsert(MapInsert(res,
                            rewrite_const.AVG_FIELD, avg[Len(avg)].avg_field_name),
                            rewrite_const.AVG_COUNT, avg_count(avg[Len(avg)])),
                            rewrite_const.AVG_SUM, avg_sum(avg[Len(avg)]))
        inserted   == IF removed.panic THEN removed
                      ELSE InsertStr(removed.sql, first_span.start + offset, target2)
    IN IF inserted.panic THEN [panic |-> TRUE, sql |-> "", res |-> res]
       ELSE change_avg_from(inserted.sql, avgs, idx, offset, n + 1, target2, res2)

\* ShardingRewrite::change_avg
change_avg(target_sql, avgs, idx, offset) ==
    change_avg_from(target_sql, avgs, idx, offset, 1, "", EmptyMap)

\* ShardingRewrite::find_min_max_fields
find_min_max_fields(idx, fields) ==
    IF IsSome(MapGet(fields, idx))
    THEN SelectSeq(MapGet(fields, idx)[1], LAMBDA f : f.wrap_func \in {"Min", "Max"})
    ELSE <<>>

(***************************************************************************)
(* INSERT splitting.                                                       *)
(***************************************************************************)
\* find_inserts reading the first value of every row, wherever the sharding column is.
find_inserts_first_value(inserts, fields, sharding_column) ==
    IF \A i \in DOMAIN fields : fields[i].name # sharding_column
    THEN [kind |-> "err", rows |-> <<>>, err |-> "ShardingColumnNotFound(" \o sharding_column \o ")"]
    ELSE [kind |-> "ok", err |-> "",
          rows |-> [i \in DOMAIN inserts |->
                        [row_sharding_value |-> inserts[i].values[1].value,
                         row_value_span |-> inserts[i].span]]]

\* find_inserts reading the first column when the sharding column is not listed.
find_inserts_default_column(inserts, fields, sharding_column) ==
    LET field == FirstIndex({i \in DOMAIN fields : fields[i].name = sharding_column}) IN
    [kind |-> "ok", err |-> "",
     rows |-> [i \in DOMAIN inserts |->
                [row_sharding_value |-> inserts[i].values[IF field = 0 THEN 1 ELSE field].value,
                 row_value_span |-> inserts[i].span]]]

\* ShardingRewrite::find_inserts: [kind, rows, err], rows the ChangeInsertMeta.
find_inserts(inserts, fields, sharding_column) ==
    LET field == FirstIndex({i \in DOMAIN fields : fields[i].name = sharding_column}) IN
    IF field = 0
    THEN [kind |-> "err", rows |-> <<>>, err |-> "ShardingColumnNotFound(" \o sharding_column \o ")"]
    ELSE IF \E i \in DOMAIN inserts : Len(inserts[i].values) < field
    THEN [kind |-> "panic", rows |-> <<>>, err |-> "values"]
    ELSE [kind |-> "ok", err |-> "",
          rows |-> [i \in DOMAIN inserts |->
                        [row_sharding_value |-> inserts[i].values[field].value,
                         row_value_span |-> inserts[i].span]]]

\* The loop of change_insert: it returns at the first row whose value does not parse.
RECURSIVE change_insert_rows(_, _, _)
change_insert_rows(rows, algo, sharding_count) ==
    IF rows = <<>> THEN [kind |-> "ok", rows |-> <<>>, err |-> ""]
    ELSE LET val == parse_u64(Head(rows).row_sharding_value) IN
         IF ~val.ok THEN [kind |-> "err", rows |-> <<>>, err |-> val.err]
         ELSE LET shard == calc_u64(val.val, algo, sharding_count) IN
              IF shard.panic THEN [kind |-> "panic", rows |-> <<>>, err |-> "calc"]
              ELSE LET rest == change_insert_rows(Tail(rows), algo, sharding_count) IN
                   IF rest.kind # "ok" THEN rest
                   ELSE [kind |-> "ok", err |-> "",
                         rows |-> << [idx |-> shard.val, span |-> Head(rows).row_value_span] >>
                                    \o rest.rows]

\* ShardingRewrite::change_insert
change_insert(inserts, fields, sharding_column, algo, sharding_count) ==
    LET insert_values == find_inserts(inserts, fields, sharding_column) IN
    IF insert_values.kind # "ok" THEN insert_values
    ELSE change_insert_rows(insert_values.rows, algo, sharding_count)

\* text.trim_end_matches(", ")
RECURSIVE trim_end_matches(_)
trim_end_matches(text) ==
    IF Len(text) >= 2 /\ SubSeq(text, Len(text) - 1, Len(text)) = ", "
    THEN trim_end_matches(SubSeq(text, 1, Len(text) - 2))
    ELSE text

\* The loop of change_insert_sql_inner over the rows: [panic, rows, idx].
RECURSIVE InsertRows(_, _, _, _, _, _, _)
InsertRows(self, rule, table, changes, row_prefix_text, change_rows, idx) ==
    IF changes = <<>> THEN [panic |-> FALSE, rows |-> change_rows, idx |-> idx]
    ELSE
    LET change == Head(changes)
        target_table == change_table(self, table, "", change.idx)
        prefix == IF IsSome(rule.table_strategy) /\ ~target_table.panic
                  THEN change_sql(row_prefix_text, table.span, target_table.target, 0)
                  ELSE Text(row_prefix_text)
        idx2 == IF ~IsSome(rule.table_strategy) /\ IsSome(rule.database_strategy)
                THEN change.idx ELSE idx
        row_text == SubSeq(self.raw_sql, change.span.start + 1,
                           change.span.start + change.span.len) \o ", "
        \* change_rows.entry(change.idx).or_insert(prefix).push_str(row_text), the
        \* IndexMap<u64, String> held as the sequence of its entries
        pushed == IF \E i \in DOMAIN change_rows : change_rows[i].k = change.idx
                  THEN [i \in DOMAIN change_rows |->
                          IF change_rows[i].k = change.idx
                          THEN [k |-> change.idx, v |-> change_rows[i].v \o row_text]
                          ELSE change_rows[i]]
                  ELSE Append(change_rows, [k |-> change.idx, v |-> prefix.sql \o row_text])
    IN IF target_table.panic \/ prefix.panic
          \/ change.span.start + change.span.len > Len(self.raw_sql)
       THEN [panic |-> TRUE, rows |-> <<>>, idx |-> idx]
       ELSE InsertRows(self, rule, table, Tail(changes), row_prefix_text,
                       pushed, idx2)

\* ShardingRewrite::change_insert_sql_inner
change_insert_sql_inner(self, rule, table, inserts, fields, sharding_column, algo, sharding_count) ==
    The({
    IF changes.kind = "err" THEN RwErr(changes.err)
    ELSE IF changes.kind = "panic" THEN RwPanic(changes.err)
    ELSE IF changes.rows = <<>> THEN RwPanic("changes[0]")
    ELSE
    LET row_start_idx == changes.rows[1].span.start
        row_prefix_text == SubSeq(self.raw_sql, 1, row_start_idx)
        ep == FindEndpoint(self.endpoints, rule.actual_datanodes[1])
    IN
    IF row_start_idx > Len(self.raw_sql) THEN RwPanic("raw_sql[0..row_start_idx]")
    ELSE
    The({
    IF looped.panic THEN RwPanic("rows")
    ELSE IF self.has_rw /\ rule.actual_datanodes = <<>> THEN RwPanic("actual_datanodes[0]")
    ELSE IF ~self.has_rw /\ IsSome(rule.table_strategy) /\ self.endpoints = <<>>
    THEN RwErr("EndpointNotFound")
    ELSE IF ~self.has_rw /\ IsSome(rule.table_strategy) /\ rule.actual_datanodes = <<>>
    THEN RwPanic("actual_datanodes[0]")
    ELSE IF ~self.has_rw /\ IsSome(rule.table_strategy) /\ ~IsSome(ep)
    THEN RwErr("EndpointNotFound")
    ELSE IF ~self.has_rw /\ ~IsSome(rule.table_strategy) /\ ~IsSome(rule.database_strategy)
    THEN RwPanic("unreachable")
    ELSE IF ~self.has_rw /\ ~IsSome(rule.table_strategy)
            /\ (looped.idx < 0 \/ looped.idx >= Len(self.endpoints))
    THEN RwPanic("endpoints[idx]")
    ELSE
    LET data_source ==
            IF self.has_rw THEN DataSourceNodeGroup(rule.actual_datanodes[1])
            ELSE IF IsSome(rule.table_strategy) THEN DataSourceEndpoint(ep[1])
            ELSE DataSourceEndpoint(self.endpoints[looped.idx + 1])
    IN RwOk([i \in DOMAIN looped.rows |->
                ShardingRewriteOutput(<<>>, trim_end_matches(looped.rows[i].v), data_source,
                                      Some(sharding_column), <<>>)]) :
    looped \in {InsertRows(self, rule, table, changes.rows, row_prefix_text, <<>>, 0)} }) :
    changes \in {change_insert(inserts, fields, sharding_column, algo, sharding_count)} })

\* ShardingRewrite::change_insert_sql: the candidate tables are handled in turn and
\* the first error ends the rewrite.
RECURSIVE change_insert_sql(_, _, _, _)
change_insert_sql(self, try_tables, fields, inserts) ==
    IF try_tables = <<>> THEN RwOk(<<>>)
    ELSE
    LET query_id == Head(try_tables).scope
        rule == Head(try_tables).rule
        n == IF IsSome(rule.table_strategy) THEN 2 ELSE 1
    IN
    IF ~IsSome(rule.table_strategy) /\ ~IsSome(rule.database_strategy)
    THEN RwPanic("unreachable")
    ELSE IF ~IsSome(MapGet(inserts, query_id)) \/ ~IsSome(MapGet(fields, query_id))
    THEN RwPanic("unwrap")
    ELSE
    The({ IF here.kind # "ok" THEN here
          ELSE LET rest == change_insert_sql(self, Tail(try_tables), fields, inserts) IN
               IF rest.kind # "ok" THEN rest ELSE RwOk(here.outputs \o rest.outputs) :
          here \in {change_insert_sql_inner(self, rule, Head(try_tables).table,
                        MapGet(inserts, query_id)[1], MapGet(fields, query_id)[1],
                        get_sharding_column(rule)[n][1], get_algo(rule)[n][1],
                        get_sharding_count(rule)[n][1])} })

(***************************************************************************)
(* Table-name edits.  debug is the build: with overflow checks (debug) a   *)
(* usize subtraction below zero panics, without them (release) it wraps,   *)
(* which the integers here follow as a negative offset.                    *)
(***************************************************************************)
\* The loop shared by database_change_apply and the two iproducts:
\*   change_sql(target_sql, span, target, offset); offset = target.len() - span.len()
\* [panic, sql, offset].
RECURSIVE apply_changes(_, _, _, _)
apply_changes(target_sql, changes, offset, debug) ==
    IF changes = <<>> THEN [panic |-> FALSE, sql |-> target_sql, offset |-> offset]
    ELSE LET x == Head(changes)
             r == change_sql(target_sql, x.span, x.target, offset)
         IN IF r.panic \/ (debug /\ Len(x.target) < x.span.len)
            THEN [panic |-> TRUE, sql |-> "", offset |-> 0]
            ELSE apply_changes(r.sql, Tail(changes), Len(x.target) - x.span.len, debug)

\* ShardingRewrite::database_change_apply; would_changes are the pairs
\* [scope, change].
database_change_apply(target_sql, would_changes, debug) ==
    apply_changes(target_sql, [i \in DOMAIN would_changes |-> would_changes[i].change], 0, debug)

\* node_fn of database_strategy, and of table_strategy, which is always None (read
\* by the plan as ""): [panic, node].
node_fn(self, rule, shard_idx, strategy_typ) ==
    IF strategy_typ = "Table" THEN [panic |-> FALSE, node |-> ""]
    ELSE IF shard_idx < 0 \/ shard_idx >= Len(rule.actual_datanodes)
    THEN [panic |-> TRUE, node |-> ""]
    ELSE LET ep == FindEndpoint(self.endpoints, rule.actual_datanodes[shard_idx + 1]) IN
         IF ~IsSome(ep) THEN [panic |-> TRUE, node |-> ""]
         ELSE [panic |-> FALSE, node |-> ep[1].db]

\* ShardingRewrite::get_database_change_plan: [panic, changes].
RECURSIVE get_database_change_plan(_, _, _, _)
get_database_change_plan(self, try_tables, wheres, strategy_typ) ==
    IF try_tables = <<>> THEN [panic |-> FALSE, changes |-> <<>>]
    ELSE
    LET x == Head(try_tables)
        w == FirstIndex({j \in DOMAIN wheres : wheres[j].scope = x.scope})
        rest == get_database_change_plan(self, Tail(try_tables), wheres, strategy_typ)
    IN
    IF w = 0 THEN rest
    ELSE LET node == node_fn(self, x.rule, wheres[w].idx, strategy_typ)
             target == change_table(self, x.table, node.node, wheres[w].idx)
         IN IF node.panic \/ target.panic \/ rest.panic
            THEN [panic |-> TRUE, changes |-> <<>>]
            ELSE [panic |-> FALSE,
                  changes |-> << [scope |-> x.scope,
                                  change |-> DatabaseChange(x.table.span, target.target,
                                                            wheres[w].idx, x.rule)] >>
                              \o rest.changes]

\* The steps of projection_changes in the other order: AVG at avg_offset, then ORDER BY
\* / GROUP BY, the changes pushed as they are made.
projection_changes_avg_first(target_sql, table_changes, orders, groups, fields, avgs, shard_idx, avg_offset) ==
    LET avg == IF avgs = <<>> THEN [panic |-> FALSE, sql |-> target_sql, res |-> EmptyMap]
               ELSE change_avg(target_sql, avgs, shard_idx, avg_offset)
    IN
    IF avg.panic THEN [panic |-> TRUE, sql |-> "", changes |-> <<>>]
    ELSE LET og == change_order_group(avg.sql, orders, groups, fields, shard_idx) IN
         IF og.panic THEN [panic |-> TRUE, sql |-> "", changes |-> <<>>]
         ELSE [panic |-> FALSE, sql |-> og.sql,
               changes |-> table_changes
                    \o (IF avgs # <<>> THEN << AvgChange(avg.res) >> ELSE <<>>)
                    \o (IF DOMAIN og.order.target # {} THEN << og.order >> ELSE <<>>)
                    \o (IF DOMAIN og.group.target # {} THEN << og.group >> ELSE <<>>)]

\* The part the point plans and the iproducts share once the table names are
\* replaced: ORDER BY / GROUP BY, then AVG at avg_offset.  [panic, sql, changes].
projection_changes(target_sql, table_changes, orders, groups, fields, avgs, shard_idx, avg_offset) ==
    The({
    IF og.panic THEN [panic |-> TRUE, sql |-> "", changes |-> <<>>]
    ELSE
    LET changes == table_changes
                    \o (IF DOMAIN og.order.target # {} THEN << og.order >> ELSE <<>>)
                    \o (IF DOMAIN og.group.target # {} THEN << og.group >> ELSE <<>>)
    IN
    IF avgs = <<>> THEN [panic |-> FALSE, sql |-> og.sql, changes |-> changes]
    ELSE The({ IF avg.panic THEN [panic |-> TRUE, sql |-> "", changes |-> <<>>]
               ELSE [panic |-> FALSE, sql |-> avg.sql,
                     changes |-> Append(changes, AvgChange(avg.res))] :
               avg \in {change_avg(og.sql, avgs, shard_idx, avg_offset)} }) :
    og \in {change_order_group(target_sql, orders, groups, fields, shard_idx)} })

(***************************************************************************)
(* Broadcast plans (iproduct).                                             *)
(***************************************************************************)
\* The first loops of the iproducts: every candidate table, every shard of its rule.
\* targets[t] is the sequence of [panic, target] of table t, one per shard.
RECURSIVE GroupChanges(_, _, _, _, _)
GroupChanges(tables, targets, t, idx, group_changes) ==
    IF t > Len(tables) THEN [panic |-> FALSE, groups |-> group_changes]
    ELSE IF idx >= Len(targets[t])
    THEN GroupChanges(tables, targets, t + 1, 0, group_changes)
    ELSE LET target == targets[t][idx + 1]
             change == DatabaseChange(tables[t].table.span, target.target, idx, tables[t].rule)
             \* group_changes.entry(idx).or_insert((scope, vec![])).1.push(change)
             pushed == IF \E i \in DOMAIN group_changes : group_changes[i].k = idx
                       THEN [i \in DOMAIN group_changes |->
                               IF group_changes[i].k = idx
                               THEN [k |-> idx, scope |-> group_changes[i].scope,
                                     v |-> Append(group_changes[i].v, change)]
                               ELSE group_changes[i]]
                       ELSE Append(group_changes,
                                   [k |-> idx, scope |-> tables[t].scope, v |-> << change >>])
         IN IF target.panic THEN [panic |-> TRUE, groups |-> <<>>]
            ELSE GroupChanges(tables, targets, t, idx + 1, pushed)

\* The body of the second loop of the iproducts for one group: [panic, output].
iproduct_output(self, entry, avgs, fields, orders, groups, data_source, sharding_column, debug) ==
    The({
    IF applied.panic THEN [panic |-> TRUE, output |-> <<>>]
    ELSE IF avgs # <<>> /\ avgs[1].v = <<>> THEN [panic |-> TRUE, output |-> <<>>]
    ELSE
    LET offset == IF avgs # <<>> /\ entry.v[1].span.start > avgs[1].v[1].span.start
                  THEN 0 ELSE applied.offset
    IN
    The({ IF done.panic THEN [panic |-> TRUE, output |-> <<>>]
          ELSE [panic |-> FALSE,
                output |-> ShardingRewriteOutput(done.changes, done.sql, data_source,
                              sharding_column, find_min_max_fields(entry.scope, fields))] :
          done \in {projection_changes(applied.sql, entry.v, orders, groups, fields, avgs,
                                       entry.v[1].shard_idx, offset)} }) :
    applied \in {apply_changes(self.raw_sql, entry.v, 0, debug)} })

\* ShardingRewrite::database_strategy_iproduct
database_strategy_iproduct(self, tables, avgs, fields, orders, groups, debug) ==
    IF \E t \in DOMAIN tables : ~IsSome(tables[t].rule.database_strategy)
    THEN RwPanic("database_strategy.unwrap")
    ELSE
    LET sharding_column ==
            IF tables = <<>> THEN None
            ELSE Some(tables[Len(tables)].rule.database_strategy[1].database_sharding_column)
        \* the targets of each table, one per data node
        targets ==
            [t \in DOMAIN tables |->
                [i \in DOMAIN tables[t].rule.actual_datanodes |->
                    LET ep == FindEndpoint(self.endpoints, tables[t].rule.actual_datanodes[i]) IN
                    IF ~IsSome(ep) THEN [panic |-> TRUE, target |-> ""]
                    ELSE change_table(self, tables[t].table, ep[1].db, 0)]]
    IN
    The({
    IF built.panic THEN RwPanic("iproduct")
    ELSE IF \E g \in DOMAIN built.groups : built.groups[g].k >= Len(self.endpoints)
    THEN RwPanic("endpoints[group]")
    ELSE
    The({ IF \E g \in DOMAIN outs : outs[g].panic THEN RwPanic("iproduct")
          ELSE RwOk([g \in DOMAIN outs |-> outs[g].output]) :
          outs \in {[g \in DOMAIN built.groups |->
                        iproduct_output(self, built.groups[g], avgs, fields, orders, groups,
                            DataSourceEndpoint(self.endpoints[built.groups[g].k + 1]),
                            sharding_column, debug)]} }) :
    built \in {GroupChanges(tables, targets, 1, 0, <<>>)} })

\* ShardingRewrite::table_strategy_iproduct
table_strategy_iproduct(self, tables, avgs, fields, orders, groups, debug) ==
    IF \/ \E t \in DOMAIN tables : ~IsSome(tables[t].rule.table_strategy)
       \/ tables # <<>> /\ self.has_rw /\ \E t \in DOMAIN tables : tables[t].rule.actual_datanodes = <<>>
       \/ tables # <<>> /\ ~self.has_rw /\ self.endpoints = <<>>
    THEN RwPanic("iproduct")
    ELSE
    LET last == tables[Len(tables)].rule
        data_source == IF self.has_rw THEN DataSourceNodeGroup(last.actual_datanodes[1])
                       ELSE DataSourceEndpoint(self.endpoints[1])
        sharding_column == IF tables = <<>> THEN None
                           ELSE Some(last.table_strategy[1].table_sharding_column)
        \* the targets of each table, one per sub-table
        targets ==
            [t \in DOMAIN tables |->
                [i \in 1..tables[t].rule.table_strategy[1].sharding_count |->
                    change_table(self, tables[t].table, "", i - 1)]]
    IN
    The({
    IF built.panic THEN RwPanic("iproduct")
    ELSE
    The({ IF \E g \in DOMAIN outs : outs[g].panic THEN RwPanic("iproduct")
          ELSE RwOk([g \in DOMAIN outs |-> outs[g].output]) :
          outs \in {[g \in DOMAIN built.groups |->
                        iproduct_output(self, built.groups[g], avgs, fields, orders, groups,
                                        data_source, sharding_column, debug)]} }) :
    built \in {GroupChanges(tables, targets, 1, 0, <<>>)} })

(***************************************************************************)
(* The strategies and rewrite().  meta is the RewriteMetaData of the       *)
(* statement: [tables, fields, wheres, inserts, avgs, orders, groups].     *)
(***************************************************************************)
\* The point plan of either strategy, from the planned wheres on.
point_plan(self, meta, try_tables, wheres, strategy_typ, debug) ==
    LET need_ep == strategy_typ = "Database" \/ ~self.has_rw
        n       == IF strategy_typ = "Database" THEN 1 ELSE 2
    IN
    The({
    IF plan.panic THEN RwPanic("plan")
    ELSE IF plan.changes = <<>> THEN RwPanic("would_changes[0]")
    ELSE
    LET would_changes == plan.changes
        shard_idx     == would_changes[1].change.shard_idx
        sharding_rule == would_changes[1].change.rule
        node          == IF strategy_typ = "Database" THEN shard_idx + 1 ELSE 1
        ep            == FindEndpoint(self.endpoints, sharding_rule.actual_datanodes[node])
        data_source   == IF self.has_rw
                         THEN DataSourceNodeGroup(sharding_rule.actual_datanodes[1])
                         ELSE DataSourceEndpoint(ep[1])
    IN
    The({
    IF applied.panic THEN RwPanic("apply")
    ELSE IF need_ep /\ self.endpoints # <<>>
            /\ (node < 1 \/ node > Len(sharding_rule.actual_datanodes))
    THEN RwPanic("actual_datanodes")
    ELSE IF need_ep /\ ~IsSome(ep) THEN RwErr("EndpointNotFound")
    ELSE IF self.has_rw /\ sharding_rule.actual_datanodes = <<>>
    THEN RwPanic("actual_datanodes[0]")
    ELSE IF ~IsSome(get_sharding_column(sharding_rule)[n]) THEN RwPanic("sharding_column")
    ELSE
    The({
    IF done.panic THEN RwPanic("projection")
    ELSE RwOk(<< ShardingRewriteOutput(done.changes, done.sql, data_source,
                    get_sharding_column(sharding_rule)[n],
                    \* min_max_fields: one lookup per applied change
                    Flatten([i \in DOMAIN would_changes |->
                        find_min_max_fields(would_changes[i].scope, meta.fields)])) >>) :
    done \in {projection_changes(applied.sql,
                [i \in DOMAIN would_changes |-> would_changes[i].change],
                meta.orders, meta.groups, meta.fields, meta.avgs, shard_idx, 0)} }) :
    applied \in {database_change_apply(self.raw_sql, would_changes, debug)} }) :
    plan \in {get_database_change_plan(self, try_tables, wheres, strategy_typ)} })

\* The tie-break of the point plans: [panic, point].  The product
\* wheres[0].1 as usize * wheres.len() overflows usize for an index 2^64 - k.
TieBreak(wheres, debug) ==
    IF debug /\ ((wheres[1].idx < 0 /\ Len(wheres) > 1) \/ SumOverflows(wheres))
    THEN [panic |-> TRUE, point |-> FALSE]
    ELSE [panic |-> FALSE, point |-> wheres[1].idx * Len(wheres) = SumIdx(wheres)]

\* ShardingRewrite::database_strategy
database_strategy(self, meta, try_tables, debug) ==
    IF meta.inserts # <<>>
    THEN IF meta.fields = <<>> THEN RwErr("FieldsIsEmpty")
         ELSE change_insert_sql(self, try_tables, meta.fields, meta.inserts)
    ELSE
    \* found: the planned wheres, when there are predicates; tie: the tie-break, when
    \* there are planned wheres
    The({ IF found.kind = "panic" THEN RwPanic(found.err)
          ELSE IF found.kind = "err" THEN RwErr(found.err)
          ELSE IF meta.wheres # <<>> /\ found.wheres = <<>> THEN RwPanic("wheres[0]")
          ELSE The({ IF tie.panic THEN RwPanic("overflow")
                     ELSE IF meta.wheres = <<>> \/ ~tie.point
                     THEN database_strategy_iproduct(self, try_tables, meta.avgs,
                                meta.fields, meta.orders, meta.groups, debug)
                     ELSE point_plan(self, meta, try_tables, found.wheres, "Database", debug) :
                     tie \in {IF found.wheres = <<>> THEN [panic |-> FALSE, point |-> FALSE]
                              ELSE TieBreak(found.wheres, debug)} }) :
          found \in {find_try_where("Database", try_tables, meta.wheres)} })

\* ShardingRewrite::table_strategy
table_strategy(self, meta, try_tables, debug) ==
    IF meta.inserts # <<>>
    THEN IF meta.fields = <<>> THEN RwErr("FieldsIsEmpty")
         ELSE change_insert_sql(self, try_tables, meta.fields, meta.inserts)
    ELSE
    \* found: the planned wheres, when there are predicates; tie: the tie-break, when
    \* there are planned wheres
    The({ IF found.kind = "panic" THEN RwPanic(found.err)
          ELSE IF found.kind = "err" THEN RwErr(found.err)
          ELSE The({ IF tie.panic THEN RwPanic("overflow")
                     ELSE IF found.wheres = <<>> \/ ~tie.point
                     THEN table_strategy_iproduct(self, try_tables, meta.avgs, meta.fields,
                                meta.orders, meta.groups, debug)
                     ELSE point_plan(self, meta, try_tables, found.wheres, "Table", debug) :
                     tie \in {IF found.wheres = <<>> THEN [panic |-> FALSE, point |-> FALSE]
                              ELSE TieBreak(found.wheres, debug)} }) :
          found \in {find_try_where("Table", try_tables, meta.wheres)} })

\* ShardingRewriter::rewrite; self already holds the input's raw_sql and default_db.
rewrite(self, meta, debug) ==
    The({ IF try_tables.panic THEN RwPanic("node_group_config")
          ELSE IF try_tables.tables = <<>> THEN RwOk(<<>>)
          ELSE IF IsSome(try_tables.tables[1].rule.database_strategy)
          THEN database_strategy(self, meta, try_tables.tables, debug)
          ELSE IF IsSome(try_tables.tables[1].rule.table_strategy)
          THEN table_strategy(self, meta, try_tables.tables, debug)
          ELSE RwOk(<<>>) :
          try_tables \in {find_table_rule(self, meta.tables)} })

(***************************************************************************)
(* Statements and their metadata.  The parser and the metadata extractor   *)
(* are not part of the sources at hand; a statement is described by its    *)
(* clauses, its text is the rendering of the clauses, and the metadata is  *)
(* what the extractor collects per query scope: the top-level statement is *)
(* scope 1 and subqueries receive successive ids in document order; every  *)
(* span points into the rendered text.                                     *)
(***************************************************************************)
\* A projection item: a plain column or an aggregate over one column.
Col(name) == [text |-> name, name |-> name, wrap_func |-> "None"]
Agg(func, wrap_func, name) ==
    [text |-> func \o "(" \o name \o ")", name |-> name, wrap_func |-> wrap_func]

\* A table reference as written; schema is an Option.
Ref(schema, name) == [schema |-> schema, name |-> name]

\* An equality predicate "left = val" with the literal's type.
Pred(left, typ, val) == [left |-> left, typ |-> typ, val |-> val]

\* SELECT fields from table[, join] [where preds [and idx = (sub)]] [GROUP BY ..]
\* [ORDER BY ..]; join is an Option, empty unless set.
Select(fields, table, preds, sub, groups, orders) ==
    [kind |-> "select", fields |-> fields, table |-> table, join |-> None, preds |-> preds,
     sub |-> sub, groups |-> groups, orders |-> orders]

\* strs joined by sep.
RECURSIVE Join(_, _)
Join(strs, sep) ==
    IF strs = <<>> THEN ""
    ELSE IF Len(strs) = 1 THEN strs[1]
    ELSE strs[1] \o sep \o Join(Tail(strs), sep)

RefText(table) ==
    (IF IsSome(table.schema) THEN table.schema[1] \o "." ELSE "") \o table.name

\* One map entry for a scope, or no entry when the scope recorded nothing.
EntryOf(scope, items) == IF items = <<>> THEN <<>> ELSE << [k |-> scope, v |-> items] >>

\* The text of a query and the metadata of its scopes; base is the offset of the
\* query's text in the statement and scope the id of the query.
RECURSIVE RenderSelect(_, _, _)
RenderSelect(q, base, scope) ==
    LET PredText(pred) ==
            pred.left \o " = "
                \o (IF pred.typ = "Str" THEN "'" \o pred.val \o "'" ELSE pred.val)
        OrderText(order) ==
            order.name \o (IF order.direction = "Desc" THEN " DESC" ELSE "")
        head   == "SELECT " \o Join([i \in DOMAIN q.fields |-> q.fields[i].text], ", ")
                    \o " from "
        fstart == [i \in DOMAIN q.fields |->
                    base + 7 + Len(Concat([j \in 1..(i - 1) |-> q.fields[j].text \o ", "]))]
        tstart == base + Len(head)
        jstart == tstart + Len(RefText(q.table)) + 2
        conds  == [i \in DOMAIN q.preds |-> PredText(q.preds[i])]
        before == head \o RefText(q.table)
                    \o (IF IsSome(q.join) THEN ", " \o RefText(q.join[1]) ELSE "")
                    \o (IF q.preds # <<>> \/ q.sub # <<>> THEN " where " ELSE "")
                    \o Join(conds, " and ")
                    \o (IF q.preds # <<>> /\ q.sub # <<>> THEN " and " ELSE "")
                    \o (IF q.sub # <<>> THEN "idx = (" ELSE "")
        inner  == IF q.sub # <<>> THEN RenderSelect(q.sub[1], base + Len(before), scope + 1)
                  ELSE [text |-> "", tables |-> <<>>, fields |-> <<>>, wheres |-> <<>>,
                        avgs |-> <<>>, orders |-> <<>>, groups |-> <<>>]
        text   == before \o inner.text \o (IF q.sub # <<>> THEN ")" ELSE "")
                    \o (IF q.groups # <<>>
                        THEN " GROUP BY " \o Join([i \in DOMAIN q.groups |-> q.groups[i]], ", ")
                        ELSE "")
                    \o (IF q.orders # <<>>
                        THEN " ORDER BY " \o Join([i \in DOMAIN q.orders |-> OrderText(q.orders[i])], ", ")
                        ELSE "")
        fields == [i \in DOMAIN q.fields |->
                    FieldMetaIdent(Span(fstart[i], Len(q.fields[i].text)), q.fields[i].name,
                                   q.fields[i].wrap_func)]
        avgidx == {i \in DOMAIN q.fields : q.fields[i].wrap_func = "Avg"}
        avgs   == SelectSeq([i \in DOMAIN q.fields |->
                                [avg |-> i \in avgidx,
                                 \* an AvgMeta
                                 meta |-> [span |-> Span(fstart[i], Len(q.fields[i].text)),
                                           avg_field_name |-> q.fields[i].text,
                                           field_name |-> q.fields[i].name]]],
                            LAMBDA a : a.avg)
    IN [text   |-> text,
        tables |-> EntryOf(scope, << TableIdent(Span(tstart, Len(RefText(q.table))),
                                               q.table.schema, q.table.name) >>
                                  \o (IF IsSome(q.join)
                                      THEN << TableIdent(Span(jstart, Len(RefText(q.join[1]))),
                                                         q.join[1].schema, q.join[1].name) >>
                                      ELSE <<>>))
                     \o inner.tables,
        fields |-> EntryOf(scope, fields) \o inner.fields,
        \* WhereMeta::BinaryExpr { left, right }, right a WhereMetaRightDataType
        wheres |-> EntryOf(scope, [i \in DOMAIN q.preds |->
                                    [left |-> q.preds[i].left,
                                     right |-> [typ |-> q.preds[i].typ, val |-> q.preds[i].val]]])
                     \o inner.wheres,
        avgs   |-> EntryOf(scope, [i \in DOMAIN avgs |-> avgs[i].meta]) \o inner.avgs,
        orders |-> EntryOf(scope, [i \in DOMAIN q.orders |->
                                    OrderMeta(q.orders[i].name, q.orders[i].direction)])
                     \o inner.orders,
        groups |-> EntryOf(scope, [i \in DOMAIN q.groups |-> [name |-> q.groups[i]]])
                     \o inner.groups]

\* INSERT INTO table(columns) VALUES (row), (row), ..
Insert(table, columns, rows) ==
    [kind |-> "insert", table |-> table, columns |-> columns, rows |-> rows]

RowText(row) == "(" \o Join(row, ", ") \o ")"

RenderInsert(q) ==
    LET into   == "INSERT INTO "
        cols   == IF q.columns = <<>> THEN "" ELSE "(" \o Join(q.columns, ", ") \o ")"
        head   == into \o RefText(q.table) \o cols \o " VALUES "
        cstart == [i \in DOMAIN q.columns |->
                    Len(into) + Len(RefText(q.table)) + 1
                        + Len(Concat([j \in 1..(i - 1) |-> q.columns[j] \o ", "]))]
        rstart == [i \in DOMAIN q.rows |->
                    Len(head) + Len(Concat([j \in 1..(i - 1) |-> RowText(q.rows[j]) \o ", "]))]
    IN [text   |-> head \o Join([i \in DOMAIN q.rows |-> RowText(q.rows[i])], ", "),
        tables |-> EntryOf(1, << TableIdent(Span(Len(into), Len(RefText(q.table))),
                                           q.table.schema, q.table.name) >>),
        fields |-> EntryOf(1, [i \in DOMAIN q.columns |->
                                FieldMetaIdent(Span(cstart[i], Len(q.columns[i])),
                                               q.columns[i], "None")]),
        wheres |-> <<>>,
        avgs   |-> <<>>,
        orders |-> <<>>,
        groups |-> <<>>,
        \* InsertValsMeta: the span of one VALUES tuple and its values in column order
        inserts |-> EntryOf(1, [i \in DOMAIN q.rows |->
                                [span |-> Span(rstart[i], Len(RowText(q.rows[i]))),
                                 values |-> [j \in DOMAIN q.rows[i] |->
                                                [value |-> q.rows[i][j]]]]])]

\* Parser::parse followed by ShardingRewrite::get_meta: the text of a statement and
\* its RewriteMetaData.
Parse(stmt) ==
    IF stmt.kind = "insert" THEN RenderInsert(stmt)
    ELSE LET r == RenderSelect(stmt, 0, 1) IN
         [text |-> r.text, tables |-> r.tables, fields |-> r.fields, wheres |-> r.wheres,
          avgs |-> r.avgs, orders |-> r.orders, groups |-> r.groups, inserts |-> <<>>]

\* The outputs of the fallback of query_rewrite: the raw SQL for every endpoint.
fallback_outputs(rewriter, raw_sql) ==
    [x \in DOMAIN rewriter.endpoints |->
        ShardingRewriteOutput(<<>>, raw_sql, DataSourceEndpoint(rewriter.endpoints[x]),
                              None, <<>>)]

\* query_rewrite without the fallback on an empty rewrite.
query_rewrite_result_as_is(rewriter, raw_sql, outputs) == outputs

\* What query_rewrite does with the outcome of rewrite().
query_rewrite_result(rewriter, raw_sql, outputs) ==
    IF outputs.kind # "ok" \/ outputs.outputs # <<>> THEN outputs
    ELSE RwOk(fallback_outputs(rewriter, raw_sql))

\* query_rewrite on a rewriter whose rewrite() keeps the default database of an
\* earlier call when the input has none.
query_rewrite_keep_default_db(rewriter, raw_sql, meta, default_db, can_rewrite, debug) ==
    LET self == [rewriter EXCEPT !.raw_sql = raw_sql,
                                 !.default_db = IF IsSome(default_db) THEN default_db
                                                ELSE rewriter.default_db] IN
    IF ~can_rewrite
    THEN [rewriter |-> rewriter, rewritten |-> None,
          result |-> RwOk(fallback_outputs(rewriter, raw_sql))]
    ELSE The({ [rewriter |-> self, rewritten |-> Some(outputs),
                result |-> query_rewrite_result(self, raw_sql, outputs)] :
               outputs \in {rewrite(self, meta, debug)} })

\* transaction_fsm.rs query_rewrite: [rewriter, rewritten, result]; rewritten is the
\* outcome of rewrite() when it was called.  rewrite() stores the input's raw_sql and
\* default_db in the rewriter before anything else.
query_rewrite(rewriter, raw_sql, meta, default_db, can_rewrite, debug) ==
    LET self == [rewriter EXCEPT !.raw_sql = raw_sql, !.default_db = default_db] IN
    IF ~can_rewrite
    THEN [rewriter |-> rewriter, rewritten |-> None,
          result |-> RwOk(fallback_outputs(rewriter, raw_sql))]
    ELSE The({ [rewriter |-> self, rewritten |-> Some(outputs),
                result |-> query_rewrite_result(self, raw_sql, outputs)] :
               outputs \in {rewrite(self, meta, debug)} })

(***************************************************************************)
(* Bounds and inputs of the rewriter's specification.                      *)
(***************************************************************************)
\* Deepest nesting of subqueries in a statement.
MaxDepth == 3

\* Number of calls (query_rewrite, set_raw_sql, set_default_db) made on one rewriter.
MaxCalls == 2

\* Most rows in the VALUES list of a generated INSERT.
MaxRows == 3

\* The configurations of the repository's tests, and variants of them.
DatabaseRule ==
    Sharding("tshard", <<"ds0", "ds1">>,
             Some([database_sharding_column |-> "idx",
                   database_sharding_algorithm_name |-> "Mod"]),
             None)
DatabaseEndpoints ==
    << Endpoint("ds0", "db0", "127.0.0.1"), Endpoint("ds1", "db1", "127.0.0.2") >>
TableRule ==
    Sharding("tshard", <<"ds001">>, None,
             Some([table_sharding_column |-> "idx", table_sharding_algorithm_name |-> "Mod",
                   sharding_count |-> 4]))
TableEndpoints == << Endpoint("ds001", "db", "127.0.0.1:3306") >>

\* The fourth has read-write split on, with a node group config whose member is the
\* rule's data node; the fifth has a rule with neither strategy; the sixth has no
\* rule; the seventh has a table strategy of zero sub-tables.  In the eighth the
\* second data node of the rule names no endpoint, in the ninth the endpoint of the
\* rules' data node is not the first of the list and a second table is sharded, and in
\* the tenth the rule's data node names no endpoint.  The last has read-write split on
\* with the rule of the database strategy.
Rewriters ==
    { ShardingRewrite(<<DatabaseRule>>, DatabaseEndpoints, None, FALSE),
      ShardingRewrite(<<DatabaseRule>>, << DatabaseEndpoints[2], DatabaseEndpoints[1] >>, None, FALSE),
      ShardingRewrite(<<TableRule>>, TableEndpoints, None, FALSE),
      ShardingRewrite(<<TableRule>>, TableEndpoints \o DatabaseEndpoints,
                      Some([members |-> << [name |-> "ds001"] >>]), TRUE),
      ShardingRewrite(<< Sharding("tshard", <<"ds001">>, None, None) >>, TableEndpoints \o DatabaseEndpoints, None, FALSE),
      ShardingRewrite(<<>>, DatabaseEndpoints, None, FALSE),
      ShardingRewrite(<< [TableRule EXCEPT !.table_strategy[1].sharding_count = 0] >>,
                      TableEndpoints, None, FALSE),
      ShardingRewrite(<<DatabaseRule>>, << DatabaseEndpoints[1] >>, None, FALSE),
      ShardingRewrite(<< TableRule, [TableRule EXCEPT !.table_name = "torder"] >>,
                      DatabaseEndpoints \o TableEndpoints, None, FALSE),
      ShardingRewrite(<<TableRule>>, DatabaseEndpoints, None, FALSE),
      ShardingRewrite(<<DatabaseRule>>, DatabaseEndpoints,
                      Some([members |-> << [name |-> "ds0"], [name |-> "ds1"] >>]), TRUE) }

\* SELECT idx from t where idx = l1 and idx = (SELECT idx from t where idx = l2 ...)
RECURSIVE Chain(_, _)
Chain(table, lits) ==
    Select(<<Col("idx")>>, table, <<Pred("idx", "Num", lits[1])>>,
           IF Len(lits) > 1 THEN << Chain(table, Tail(lits)) >> ELSE <<>>, <<>>, <<>>)

\* The statements of the requests.
Statements ==
    LET
        \* Up to MaxDepth nested queries on the sharded table, qualified or not.
        ChainStatements ==
            {Chain(table, lits) :
                table \in {Ref(Some("db"), "tshard"), Ref(None, "tshard")},
                lits \in UNION {[1..n -> {"1", "3", "4"}] : n \in 1..MaxDepth}}
        \* Two nested queries on a quoted table name, a quoted schema and a longer schema.
        QuotedStatements ==
            {Chain(table, <<"3", "3">>) :
                table \in { Ref(Some("db"), BT \o "tshard" \o BT),
                            Ref(Some(BT \o "db" \o BT), "tshard"),
                            Ref(Some("warehouse"), "tshard") }}
        \* One query with a projection, with or without a sharding predicate, GROUP BY and
        \* ORDER BY.
        ProjectionStatements ==
            {Select(fields, Ref(Some("db"), "tshard"), preds, <<>>, groups, orders) :
                fields \in { <<Col("order_id"), Col("order_item_id")>>,
                             <<Agg("AVG", "Avg", "pbl")>>,
                             <<Agg("AVG", "Avg", "pbl"), Col("idx"), Agg("AVG", "Avg", "znl")>>,
                             <<Agg("MIN", "Min", "idx"), Col("user_id")>> },
                preds  \in { <<>>, <<Pred("idx", "Num", "3")>> },
                groups \in { <<>>, <<"user_id">> },
                orders \in { <<>>, <<OrderMeta(BT \o "idx" \o BT, "Desc")>>,
                             <<OrderMeta("user_id", "Asc"), OrderMeta("price", "Desc")>> }}
        \* One query with a predicate of each literal type, or on another column.
        LiteralStatements ==
            {Select(<<Col("idx")>>, Ref(Some("db"), "tshard"), preds, <<>>, <<>>, <<>>) :
                preds \in { <<Pred("idx", "Num", "18446744073709551616")>>,
                            <<Pred("idx", "SignedNum", "-3")>>,
                            <<Pred("idx", "SignedNum", "-3"), Pred("idx", "Num", "1")>>,
                            <<Pred("idx", "FloatNum", "2.5")>>,
                            <<Pred("idx", "FloatNum", "3.5")>>,
                            <<Pred("idx", "Str", "a")>>,
                            <<Pred("name", "Num", "3")>>,
                            <<Pred(BT \o "idx" \o BT, "Num", "5"), Pred("name", "Str", "a")>> }}
        \* Statements with an aggregate or an ORDER BY in a subquery, on other tables, and on
        \* two tables in one query scope.
        OtherStatements ==
            { [Select(<<Agg("MIN", "Min", "idx"), Col("user_id")>>, Ref(Some("db"), "tshard"),
                      <<Pred("idx", "Num", "3")>>, <<>>, <<>>, <<>>)
                 EXCEPT !.join = Some(Ref(Some("db"), "torder"))],
              [Select(<<Agg("MIN", "Min", "idx"), Agg("MAX", "Max", "price")>>, Ref(Some("db"), "tshard"),
                      <<>>, <<>>, <<>>, <<>>)
                 EXCEPT !.join = Some(Ref(Some("db"), "torder"))],
              Select(<<Col("idx")>>, Ref(Some("db"), "tshard"), <<>>,
                     << Select(<<Agg("AVG", "Avg", "znl")>>, Ref(Some("db"), "tshard"), <<>>, <<>>,
                               <<>>, <<>>) >>, <<>>, <<>>),
              Select(<<Agg("AVG", "Avg", "pbl")>>, Ref(Some("db"), "tshard"), <<Pred("idx", "Num", "3")>>,
                     << Select(<<Agg("AVG", "Avg", "znl")>>, Ref(Some("db"), "tshard"),
                               <<Pred("idx", "Num", "3")>>, <<>>, <<>>, <<>>) >>, <<>>, <<>>),
              Select(<<Col("idx")>>, Ref(Some("db"), "tshard"), <<>>,
                     << Select(<<Col("idx")>>, Ref(Some("db"), "tshard"), <<>>, <<>>, <<>>,
                               <<OrderMeta("idx", "Asc")>>) >>, <<>>, <<>>),
              Select(<<Col("idx")>>, Ref(Some("db"), "other"), <<Pred("idx", "Num", "3")>>, <<>>,
                     <<>>, <<>>),
              Select(<<Col("idx")>>, Ref(Some("db"), "other"), <<Pred("idx", "Num", "3")>>,
                     << Chain(Ref(Some("db"), "tshard"), <<"3">>) >>, <<>>, <<>>) }
        InsertStatements ==
            { Insert(Ref(Some("db"), "tshard"), <<"idx">>, << <<"12">>, <<"13">>, <<"16">> >>),
              Insert(Ref(Some("db"), "tshard"), <<"name", "idx">>, << <<"'a'", "13">>, <<"'b'", "12">> >>),
              Insert(Ref(None, "tshard"), <<"idx">>, << <<"1">> >>),
              Insert(Ref(Some("db"), "tshard"), <<"name">>, << <<"'a'">> >>),
              Insert(Ref(Some("db"), "tshard"), <<"idx">>, << <<"1">>, <<"x">> >>),
              Insert(Ref(Some("db"), "tshard"), <<>>, << <<"1">> >>) }
            \cup {Insert(Ref(Some("db"), "tshard"), <<"idx">>, [r \in DOMAIN vals |-> << vals[r] >>]) :
                    vals \in UNION {[1..n -> {"1", "2", "4", "7"}] : n \in 1..MaxRows}}
        \* Statements whose scopes differ in what they say about the sharding column: a
        \* subquery without a predicate, a subquery whose literal does not parse, and three
        \* predicates in one scope.
        PlanStatements ==
            { Select(<<Col("idx")>>, Ref(Some("db"), "tshard"), <<Pred("idx", "Num", "3")>>,
                     << Select(<<Col("idx")>>, Ref(Some("db"), "tshard"), <<>>, <<>>, <<>>, <<>>) >>,
                     <<>>, <<>>),
              Select(<<Col("idx")>>, Ref(Some("db"), "tshard"), <<Pred("idx", "Num", "3")>>,
                     << Select(<<Col("idx")>>, Ref(Some("db"), "tshard"),
                               <<Pred("idx", "Num", "18446744073709551616")>>, <<>>, <<>>, <<>>) >>,
                     <<>>, <<>>),
              Select(<<Col("idx")>>, Ref(Some("db"), "tshard"),
                     <<Pred("idx", "Num", "1"), Pred("idx", "Num", "4"), Pred("idx", "Num", "2")>>,
                     <<>>, <<>>, <<>>),
              Select(<<Col("idx")>>, Ref(Some("db"), "tshard"),
                     <<Pred("name", "Num", "3"), Pred("idx", "FloatNum", "x.5")>>, <<>>, <<>>, <<>>) }
    IN  ChainStatements \cup QuotedStatements \cup ProjectionStatements
            \cup LiteralStatements \cup OtherStatements \cup InsertStatements
            \cup PlanStatements

Request(stmt, default_db, can_rewrite) ==
    [stmt |-> stmt, default_db |-> default_db, can_rewrite |-> can_rewrite]

\* What the first call on a rewriter asks: a rewrite of any of the statements, or
\* none (can_rewrite false) of a SELECT that has no subquery.
Requests ==
    {Request(stmt, default_db, TRUE) : stmt \in Statements, default_db \in {None, Some("db")}}
        \cup {Request(stmt, default_db, FALSE) :
                stmt \in {s \in Statements : s.kind = "select" /\ s.sub = <<>>},
                default_db \in {None, Some("db")}}

\* What a later call on the same rewriter asks.
FollowUpRequests ==
    { Request(Chain(Ref(Some("db"), "tshard"), <<"4">>), None, TRUE),
      Request(Chain(Ref(None, "tshard"), <<"3">>), None, TRUE),
      Request(Select(<<Col("idx")>>, Ref(Some("db"), "other"), <<>>, <<>>, <<>>, <<>>),
              Some("db"), FALSE) }

\* The statement q of scope `scope` with every table reference that changes replaces
\* read from its replacement; tables are the table references of the whole statement.
RECURSIVE Renamed(_, _, _, _)
Renamed(q, scope, tables, changes) ==
    LET \* the table reference that a replacement text reads as: the schema before the
        \* dot and the name after it, quoting kept
        RefOf(target) ==
            LET dot == FirstIndex({i \in 1..Len(target) : CharAt(target, i) = "."}) IN
            Ref(Some(SubSeq(target, 1, dot - 1)), SubSeq(target, dot + 1, Len(target)))
        NewRef(ident, old) ==
            LET c == FirstIndex({i \in DOMAIN changes :
                                    /\ changes[i].typ = "DatabaseChange"
                                    /\ changes[i].span = ident.span})
            IN IF c = 0 THEN old ELSE RefOf(changes[c].target)
        idents == MapGet(tables, scope)[1]
    IN [q EXCEPT !.table = NewRef(idents[1], q.table),
                 !.join  = IF IsSome(q.join) THEN Some(NewRef(idents[2], q.join[1])) ELSE None,
                 !.sub   = IF q.sub # <<>>
                           THEN << Renamed(q.sub[1], scope + 1, tables, changes) >>
                           ELSE <<>>]

\* A later call that feeds the target_sql of an output of the table strategy back in:
\* the statements that read as the text of an output of the last call.
FedBackRequests ==
    IF rw_call = <<>> THEN {}
    ELSE IF rw_call[1].op # "query_rewrite" THEN {}
    ELSE IF rw_call[1].stmt.kind # "select" \/ rw_call[1].result.kind # "ok" THEN {}
    ELSE LET outputs == rw_call[1].result.outputs
             tables  == Parse(rw_call[1].stmt).tables
             stmts   == {Renamed(rw_call[1].stmt, 1, tables, outputs[i].changes) :
                            i \in {j \in DOMAIN outputs :
                                    /\ outputs[j].changes # <<>>
                                    /\ IsSome(outputs[j].changes[1].rule.table_strategy)}}
         IN {Request(s, rw_call[1].default_db, TRUE) :
                s \in {r \in stmts :
                        \E i \in DOMAIN outputs : Parse(r).text = outputs[i].target_sql}}

(***************************************************************************)
(* The rewriter's specification: a ShardingRewrite is constructed from a   *)
(* configuration and answers query_rewrite calls; its owner may store a    *)
(* statement text or a default database in it between the calls.  A panic  *)
(* ends the task that owns the rewriter.                                   *)
(***************************************************************************)
InitRewrite ==
    /\ InitFsm
    /\ sharding_rewrite \in {Some(r) : r \in Rewriters}
    /\ build \in {"debug", "release"}
    /\ rw_call = <<>>
    /\ calls = 0
    /\ sets = 0

QueryRewrite(stmt, default_db, can_rewrite) ==
    /\ calls + sets < MaxCalls
    /\ IF rw_call = <<>> THEN TRUE ELSE rw_call[1].result.kind # "panic"
    /\ \E parsed \in {Parse(stmt)} :
        \E r \in {query_rewrite(sharding_rewrite[1], parsed.text, parsed, default_db,
                                 can_rewrite, build = "debug")} :
            /\ sharding_rewrite' = Some(r.rewriter)
            /\ rw_call' = Some([op |-> "query_rewrite", stmt |-> stmt, raw_sql |-> parsed.text,
                                 default_db |-> default_db, can_rewrite |-> can_rewrite,
                                 rewritten |-> r.rewritten, result |-> r.result])
    /\ calls' = calls + 1
    /\ UNCHANGED <<build, sets, fsm_vars>>

\* ShardingRewrite::set_raw_sql
SetRawSql(raw_sql) ==
    /\ calls + sets < MaxCalls
    /\ IF rw_call = <<>> THEN TRUE ELSE rw_call[1].result.kind # "panic"
    /\ sharding_rewrite' = Some([sharding_rewrite[1] EXCEPT !.raw_sql = raw_sql])
    /\ rw_call' = Some([op |-> "set_raw_sql", stmt |-> <<>>, raw_sql |-> raw_sql,
                         default_db |-> None, can_rewrite |-> FALSE, rewritten |-> None,
                         result |-> RwOk(<<>>)])
    /\ sets' = sets + 1
    /\ UNCHANGED <<build, calls, fsm_vars>>

\* ShardingRewrite::set_default_db
SetDefaultDb(db) ==
    /\ calls + sets < MaxCalls
    /\ IF rw_call = <<>> THEN TRUE ELSE rw_call[1].result.kind # "panic"
    /\ sharding_rewrite' = Some([sharding_rewrite[1] EXCEPT !.default_db = db])
    /\ rw_call' = Some([op |-> "set_default_db", stmt |-> <<>>, raw_sql |-> "",
                         default_db |-> db, can_rewrite |-> FALSE, rewritten |-> None,
                         result |-> RwOk(<<>>)])
    /\ sets' = sets + 1
    /\ UNCHANGED <<build, calls, fsm_vars>>

\* The first call on a rewriter draws from all the requests, a later one from the
\* follow-up requests.
NextRewrite ==
    \/ \E req \in IF calls + sets = 0 THEN Requests
                   ELSE FollowUpRequests \cup FedBackRequests :
            QueryRewrite(req.stmt, req.default_db, req.can_rewrite)
    \/ SetRawSql("select 1")
    \/ \E db \in {None, Some("db")} : SetDefaultDb(db)

SpecRewrite == InitRewrite /\ [][NextRewrite]_vars

(***************************************************************************)
(* C9                                                                      *)
(***************************************************************************)
Called == rw_call # <<>> /\ rw_call[1].op = "query_rewrite"

\* One output per configured endpoint, in endpoint order, each the raw SQL bound to
\* that endpoint with no change, no sharding column and no min/max field.
IsBroadcastOf(outputs, endpoints, raw_sql) ==
    /\ Len(outputs) = Len(endpoints)
    /\ \A i \in DOMAIN outputs :
        /\ outputs[i].target_sql = raw_sql
        /\ outputs[i].changes = <<>>
        /\ outputs[i].sharding_column = None
        /\ outputs[i].min_max_fields = <<>>
        /\ outputs[i].data_source.typ = "Endpoint"
        /\ outputs[i].data_source.endpoint = endpoints[i]

\* The rewriter was not asked, or returned the empty list.
FellBack ==
    \/ ~rw_call[1].can_rewrite
    \/ /\ rw_call[1].rewritten[1].kind = "ok"
       /\ rw_call[1].rewritten[1].outputs = <<>>

\* C9: query_rewrite falls back to broadcast whenever rewriting is disabled or the
\* rewriter returns the empty list: one output per configured endpoint, in endpoint
\* order, each with the raw SQL, no changes, no sharding column, no min/max fields and
\* data_source = Endpoint(that endpoint).  A non-empty list from the rewriter is
\* returned unchanged, and a rewriter error is returned as an error without fallback.
C9_QueryRewriteFallsBackToBroadcast ==
    Called =>
        /\ rw_call[1].can_rewrite <=> rw_call[1].rewritten # None
        /\ FellBack =>
            /\ rw_call[1].result.kind = "ok"
            /\ IsBroadcastOf(rw_call[1].result.outputs, sharding_rewrite[1].endpoints,
                             rw_call[1].raw_sql)
        /\ (~FellBack /\ rw_call[1].rewritten[1].kind = "ok") =>
            /\ rw_call[1].rewritten[1].outputs # <<>>
            /\ rw_call[1].result = rw_call[1].rewritten[1]
        /\ (~FellBack /\ rw_call[1].rewritten[1].kind = "err") =>
            rw_call[1].result = RwErr(rw_call[1].rewritten[1].err)

\* An empty rewrite was broadcast to two endpoints.
C9_Witness ==
    /\ Called
    /\ rw_call[1].can_rewrite
    /\ rw_call[1].rewritten[1] = RwOk(<<>>)
    /\ Len(rw_call[1].result.outputs) = 2
    /\ rw_call[1].result.outputs[2].data_source.endpoint.name = "ds1"

(***************************************************************************)
(* C10                                                                     *)
(***************************************************************************)
\* An edit of an output: the span it replaces in the raw SQL and, where the output
\* records it, the replacement text.
Edit(span, known, text) ==
    [start |-> span.start, len |-> span.len, known |-> known, text |-> text]

\* The range from the first to the last item of a list of items with spans.
ItemsSpan(items) ==
    Span(items[1].span.start, items[Len(items)].span.start + items[Len(items)].span.len - items[1].span.start)

HasDerivedColumn(output) ==
    \E i \in DOMAIN output.changes :
        \/ /\ output.changes[i].typ = "OrderChange"
           /\ output.changes[i].target[rewrite_const.ORDER_TARGET] # ""
        \/ /\ output.changes[i].typ = "GroupChange"
           /\ output.changes[i].target[rewrite_const.GROUP_TARGET] # ""

\* The edits applied to an output: every table replacement it records, the scope-1
\* projection when a derived ORDER BY / GROUP BY column was added, and the AVG items
\* of every scope when an AvgChange is recorded.
EditsOf(meta, output) ==
    {Edit(output.changes[i].span, TRUE, output.changes[i].target) :
        i \in {j \in DOMAIN output.changes : output.changes[j].typ = "DatabaseChange"}}
    \cup (IF HasDerivedColumn(output)
          THEN {Edit(ItemsSpan(MapGet(meta.fields, 1)[1]), FALSE, "")}
          ELSE {})
    \cup (IF \E i \in DOMAIN output.changes : output.changes[i].typ = "AvgChange"
          THEN {Edit(ItemsSpan(meta.avgs[e].v), FALSE, "") : e \in DOMAIN meta.avgs}
          ELSE {})

\* The edits in the order of their spans, overlapping spans merged into one edit
\* whose replacement text is not recorded.
RECURSIVE EditSeq(_)
EditSeq(edits) ==
    IF edits = {} THEN <<>>
    ELSE LET first == CHOOSE e \in edits : \A o \in edits : e.start <= o.start
             over  == {o \in edits : o # first /\ o.start < first.start + first.len}
         IN IF over = {} THEN << first >> \o EditSeq(edits \ {first})
            ELSE LET end == SetMax({o.start + o.len : o \in over \cup {first}}) IN
                 EditSeq((edits \ (over \cup {first}))
                            \cup {Edit(Span(first.start, end - first.start), FALSE, "")})

\* text, from its position tpos on, is raw from rpos on with each edit's span
\* replaced: by the recorded replacement, or by some text where none is recorded.
RECURSIVE SplicedFrom(_, _, _, _, _)
SplicedFrom(raw, text, edits, rpos, tpos) ==
    IF edits = <<>>
    THEN SubSeq(raw, rpos + 1, Len(raw)) = SubSeq(text, tpos + 1, Len(text))
    ELSE LET e    == Head(edits)
             gap  == e.start - rpos
             next == tpos + gap
         IN /\ gap >= 0
            /\ next <= Len(text)
            /\ SubSeq(raw, rpos + 1, e.start) = SubSeq(text, tpos + 1, next)
            /\ IF e.known
               THEN /\ SubSeq(text, next + 1, next + Len(e.text)) = e.text
                    /\ next + Len(e.text) <= Len(text)
                    /\ SplicedFrom(raw, text, Tail(edits), e.start + e.len, next + Len(e.text))
               ELSE \E k \in 0..(Len(text) - next) :
                        SplicedFrom(raw, text, Tail(edits), e.start + e.len, next + k)

IsSplice(raw, meta, output) ==
    SplicedFrom(raw, output.target_sql, EditSeq(EditsOf(meta, output)), 0, 0)

\* C10: for every rewrite output of a non-INSERT statement, target_sql is
\* byte-identical to the raw SQL outside the union of the applied edit spans: each
\* edited span is replaced by its replacement text at the position of the span
\* translated by the edits already applied, and every other byte of the raw SQL
\* appears unchanged and in its original order.
C10_TargetSqlIsRawOutsideEdits ==
    (Called /\ rw_call[1].stmt.kind = "select" /\ rw_call[1].result.kind = "ok") =>
        \A i \in DOMAIN rw_call[1].result.outputs :
            IsSplice(rw_call[1].raw_sql, Parse(rw_call[1].stmt), rw_call[1].result.outputs[i])

(***************************************************************************)
(* What the later claims say about a call: the statement's metadata, the   *)
(* candidate tables and the literals that reach the shard calculation.     *)
(***************************************************************************)
\* rewrite() was called and returned or panicked.
Rewrote == Called /\ rw_call[1].can_rewrite

CallMeta == Parse(rw_call[1].stmt)

\* The triples [scope, rule, table] of the table references a rule matched, for the
\* rewriter as rewrite() has it: with the input's raw_sql and default_db stored.
CallTables ==
    find_table_rule([sharding_rewrite[1] EXCEPT !.raw_sql = rw_call[1].raw_sql,
                                                !.default_db = rw_call[1].default_db],
                    CallMeta.tables).tables

\* The strategy whose column, algorithm and count apply to a rule of the call: 1 the
\* database strategy, 2 the table strategy.  A SELECT follows the first candidate's
\* rule, an INSERT each table's own rule.
StrategyOf(rule) ==
    IF rw_call[1].stmt.kind = "insert" THEN (IF IsSome(rule.table_strategy) THEN 2 ELSE 1)
    ELSE IF IsSome(CallTables[1].rule.database_strategy) THEN 1 ELSE 2

\* The call is on a sharded table: some reference is matched and its rule has a
\* strategy.
OnShardedTable ==
    /\ Rewrote
    /\ LET tables == CallTables IN
       /\ tables # <<>>
       /\ \A t \in DOMAIN tables :
            IsSome(get_sharding_column(tables[t].rule)[StrategyOf(tables[t].rule)])

\* Every data node of every candidate table's rule names a configured endpoint.
DataNodesConfigured ==
    LET tables == CallTables IN
    \A t \in DOMAIN tables :
        \A i \in DOMAIN tables[t].rule.actual_datanodes :
            IsSome(FindEndpoint(sharding_rewrite[1].endpoints, tables[t].rule.actual_datanodes[i]))

\* A literal of the statement that is compared with, or inserted into, the sharding
\* column of a candidate table: [scope, typ, val, count], count the shard count.
Literal(rule, scope, typ, val) ==
    [scope |-> scope, typ |-> typ, val |-> val,
     count |-> get_sharding_count(rule)[StrategyOf(rule)][1]]

\* The literals of the WHERE equalities on the sharding column, in the order of the
\* scopes and of the predicates of a scope.
WhereLiterals ==
    LET items  == MapItems(CallMeta.wheres)
        tables == CallTables
        n      == StrategyOf(tables[1].rule)
    IN
    Flatten([i \in DOMAIN items |->
        LET t == FirstIndex({j \in DOMAIN tables : tables[j].scope = items[i].k}) IN
        IF /\ t # 0
           /\ items[i].x.right.typ \in {"Num", "SignedNum", "FloatNum"}
           /\ StripChar(items[i].x.left, BT) = get_sharding_column(tables[t].rule)[n][1]
        THEN << Literal(tables[t].rule, items[i].k, items[i].x.right.typ,
                        items[i].x.right.val) >>
        ELSE <<>>])

\* The position of the sharding column in the column list of an INSERT, 0 if absent.
InsertColumn ==
    FirstIndex({c \in DOMAIN rw_call[1].stmt.columns :
                    rw_call[1].stmt.columns[c]
                        = get_sharding_column(CallTables[1].rule)[StrategyOf(CallTables[1].rule)][1]})

\* The literals of the sharding column in the rows of an INSERT, in row order.
InsertLiterals ==
    LET column == InsertColumn
        rule   == CallTables[1].rule
    IN IF column = 0 THEN <<>>
       ELSE [r \in DOMAIN rw_call[1].stmt.rows |->
                Literal(rule, 1, "Num", rw_call[1].stmt.rows[r][column])]

ShardingLiterals ==
    IF rw_call[1].stmt.kind = "insert" THEN InsertLiterals ELSE WhereLiterals

\* The literal is a numeral of its declared type.
Parses(lit) ==
    IF lit.typ = "Num" THEN parse_u64(lit.val).ok
    ELSE IF lit.typ = "SignedNum" THEN parse_i64(lit.val).ok
    ELSE parse_f64(lit.val).ok

\* What calc returns for a literal that parses and a given shard count.
CalcOf(lit, count) ==
    IF lit.typ = "Num" THEN calc_u64(parse_u64(lit.val).val, "Mod", count)
    ELSE IF lit.typ = "SignedNum" THEN calc_i64(parse_i64(lit.val).val, "Mod", count)
    ELSE calc_f64(parse_f64(lit.val).val, "Mod", count)

(***************************************************************************)
(* C11                                                                     *)
(***************************************************************************)
\* C11: for every numeric value v (unsigned, signed or floating point) and every shard
\* count n > 0, the shard index that calc computes under the Mod algorithm is an
\* integer in [0, n).  The values are the sharding literals of the statements and the
\* counts those of the configured rules.
C11_ShardIndexInRange ==
    OnShardedTable =>
        \A lit \in {ShardingLiterals[i] : i \in DOMAIN ShardingLiterals} :
            (Parses(lit) /\ lit.count > 0) =>
                /\ ~CalcOf(lit, lit.count).panic
                /\ CalcOf(lit, lit.count).val \in 0..(lit.count - 1)

(***************************************************************************)
(* C12                                                                     *)
(***************************************************************************)
\* C12: the shard index calculation fails with the error CalcMod when the shard count
\* is 0 or when the literal cannot be parsed to its declared numeric type; in both
\* cases the rewrite call returns that error value rather than a result.
C12_CalcFailsWithCalcMod ==
    OnShardedTable =>
        \A lit \in {ShardingLiterals[i] : i \in DOMAIN ShardingLiterals} :
            (lit.count = 0 \/ ~Parses(lit)) =>
                rw_call[1].rewritten[1] = RwErr("CalcModError")

(***************************************************************************)
(* C13                                                                     *)
(***************************************************************************)
\* The elements of a finite set of integers in ascending order.
RECURSIVE Ascending(_)
Ascending(S) == IF S = {} THEN <<>> ELSE << SetMin(S) >> \o Ascending(S \ {SetMin(S)})

\* An INSERT on a sharded table whose column list holds the sharding column, whose
\* rows all carry a numeral in it, and whose rule has at least one shard and an
\* endpoint for each of its data nodes.
InsertSplits ==
    /\ Called
    /\ rw_call[1].stmt.kind = "insert"
    /\ OnShardedTable
    /\ DataNodesConfigured
    /\ LET literals == InsertLiterals IN
       /\ literals # <<>>
       /\ \A r \in DOMAIN literals : Parses(literals[r]) /\ literals[r].count > 0

\* The shard index of each row.
RowShards ==
    LET literals == InsertLiterals IN
    [r \in DOMAIN literals |-> CalcOf(literals[r], literals[r].count).val]

\* The distinct shard indexes of the rows in the order of their first row.
ShardsSeen ==
    LET shards == RowShards
        firsts == Ascending({r \in DOMAIN shards :
                                \A q \in 1..(r - 1) : shards[q] # shards[r]})
    IN [k \in DOMAIN firsts |-> shards[firsts[k]]]

\* The INSERT statement that carries the rows of shard s, in their original order:
\* under the table strategy it names the sub-table of s.
InsertOf(s) ==
    LET stmt == rw_call[1].stmt
        shards == RowShards
        rows == Ascending({r \in DOMAIN shards : shards[r] = s})
        name == IF StrategyOf(CallTables[1].rule) = 2
                THEN BT \o (IF IsSome(stmt.table.schema) THEN stmt.table.schema[1]
                            ELSE rw_call[1].default_db[1]) \o BT
                        \o "." \o stmt.table.name \o "_" \o ZeroPad(Decimal(s), 5)
                ELSE RefText(stmt.table)
    IN "INSERT INTO " \o name \o "(" \o Join(stmt.columns, ", ") \o ")" \o " VALUES "
        \o Join([k \in DOMAIN rows |-> RowText(stmt.rows[rows[k]])], ", ")

\* C13: for every multi-row INSERT on a sharded table the outputs partition the VALUES
\* rows: there is one output per distinct shard index of the rows, each output is the
\* INSERT of exactly the rows of its shard index in their original order, so every row
\* is in exactly one output and no output is without rows.
C13_InsertOutputsPartitionRows ==
    InsertSplits =>
        /\ rw_call[1].rewritten[1].kind = "ok"
        /\ LET seen == ShardsSeen IN
           /\ Len(rw_call[1].rewritten[1].outputs) = Len(seen)
           /\ \A k \in DOMAIN seen :
                rw_call[1].rewritten[1].outputs[k].target_sql = InsertOf(seen[k])

\* Three rows were split over two sub-tables, the first of which received two rows.
C13_Witness ==
    /\ InsertSplits
    /\ Len(rw_call[1].stmt.rows) = 3
    /\ Len(rw_call[1].rewritten[1].outputs) = 2
    /\ rw_call[1].rewritten[1].outputs[1].target_sql
            = "INSERT INTO ^db^.tshard_00000(idx) VALUES (12), (16)"

(***************************************************************************)
(* C14                                                                     *)
(***************************************************************************)
\* C14: the outputs of one rewrite call are emitted in ascending shard-index (or
\* endpoint) order: the outputs of an INSERT split are the INSERTs of the distinct
\* shard indexes of the rows in ascending order, whatever the order of the rows, and
\* the outputs of a broadcast carry strictly ascending shard indexes.
C14_OutputsInAscendingShardOrder ==
    /\ (InsertSplits /\ rw_call[1].rewritten[1].kind = "ok") =>
            LET shards == RowShards
                sorted == Ascending({shards[r] : r \in DOMAIN shards})
            IN \A k \in DOMAIN rw_call[1].rewritten[1].outputs :
                    /\ k \in DOMAIN sorted
                    /\ rw_call[1].rewritten[1].outputs[k].target_sql = InsertOf(sorted[k])
    /\ (OnShardedTable /\ rw_call[1].stmt.kind = "select"
            /\ rw_call[1].rewritten[1].kind = "ok") =>
            \A j, k \in DOMAIN rw_call[1].rewritten[1].outputs :
                j < k => rw_call[1].rewritten[1].outputs[j].changes[1].shard_idx
                            < rw_call[1].rewritten[1].outputs[k].changes[1].shard_idx

(***************************************************************************)
(* C15                                                                     *)
(***************************************************************************)
\* C15: with read-write split off, every output of an INSERT split carries an empty
\* changes list and is bound, under the table strategy, to the endpoint named by the
\* rule's first data node and, under the database strategy, to the endpoint at the
\* position of the output's own shard index.
C15_InsertOutputsBoundToTheirShard ==
    (InsertSplits /\ ~sharding_rewrite[1].has_rw /\ rw_call[1].rewritten[1].kind = "ok") =>
        LET rule == CallTables[1].rule
            seen == ShardsSeen
        IN \A k \in DOMAIN rw_call[1].rewritten[1].outputs :
            LET output == rw_call[1].rewritten[1].outputs[k] IN
            /\ output.changes = <<>>
            /\ output.data_source.typ = "Endpoint"
            /\ IF StrategyOf(rule) = 2
               THEN output.data_source.endpoint.name = rule.actual_datanodes[1]
               ELSE output.data_source.endpoint = sharding_rewrite[1].endpoints[seen[k] + 1]

(***************************************************************************)
(* C16                                                                     *)
(***************************************************************************)
\* The sharding column of the INSERT's table.
InsertShardingColumn ==
    get_sharding_column(CallTables[1].rule)[StrategyOf(CallTables[1].rule)][1]

\* C16: an INSERT on a sharded table fails with ShardingColumnNotFound when its column
\* list does not contain the rule's sharding column and with FieldsIsEmpty when it has
\* no column list; in both cases no output is produced.
C16_InsertWithoutShardingColumnFails ==
    (Rewrote /\ rw_call[1].stmt.kind = "insert" /\ OnShardedTable /\ InsertColumn = 0) =>
        /\ rw_call[1].rewritten[1]
            = IF rw_call[1].stmt.columns = <<>> THEN RwErr("FieldsIsEmpty")
              ELSE RwErr("ShardingColumnNotFound(" \o InsertShardingColumn \o ")")
        /\ rw_call[1].result = rw_call[1].rewritten[1]
        /\ rw_call[1].result.outputs = <<>>

\* An INSERT that lists only the column name was refused.
C16_Witness ==
    /\ Rewrote
    /\ rw_call[1].stmt.kind = "insert"
    /\ rw_call[1].stmt.columns = <<"name">>
    /\ rw_call[1].result = RwErr("ShardingColumnNotFound(idx)")
    /\ OnShardedTable

(***************************************************************************)
(* C17                                                                     *)
(***************************************************************************)
\* C17: a parse or calculation error aborts the entire rewrite call with no partial
\* success: if the sharding literal of any single INSERT row, or of any WHERE equality
\* on the sharding column in any scope, fails to parse, rewrite returns an error and
\* no output at all, whatever the other rows or predicates are.
C17_ParseErrorAbortsRewrite ==
    (OnShardedTable /\ \E lit \in {ShardingLiterals[i] : i \in DOMAIN ShardingLiterals} :
                            ~Parses(lit)) =>
        /\ rw_call[1].rewritten[1].kind = "err"
        /\ rw_call[1].rewritten[1].outputs = <<>>
        /\ rw_call[1].result = rw_call[1].rewritten[1]

(***************************************************************************)
(* C18                                                                     *)
(***************************************************************************)
\* The shard indexes of the WHERE equalities on the sharding column.
WhereShards ==
    LET literals == WhereLiterals IN
    {CalcOf(literals[i], literals[i].count).val : i \in DOMAIN literals}

\* rewrite returned a point plan: a single output chosen from WHERE predicates.  The
\* rules of the configurations have no or several shards, so that a broadcast is never
\* a single output.
PointPlan ==
    /\ Rewrote
    /\ rw_call[1].stmt.kind = "select"
    /\ rw_call[1].rewritten[1].kind = "ok"
    /\ OnShardedTable
    /\ Len(rw_call[1].rewritten[1].outputs) = 1
    /\ WhereLiterals # <<>>

\* The table replacements of the single output of a point plan.
PointChanges ==
    SelectSeq(rw_call[1].rewritten[1].outputs[1].changes, LAMBDA c : c.typ = "DatabaseChange")

\* C18: whenever rewrite returns a point plan, all computed predicates agree on one
\* shard index s and every DatabaseChange of the output has shard_idx = s; whenever two
\* computed predicates disagree on the shard index, the plan is not a point plan.
C18_PointPlanHasOneShard ==
    PointPlan =>
        /\ Cardinality(WhereShards) = 1
        /\ \A c \in DOMAIN PointChanges : PointChanges[c].shard_idx \in WhereShards

(***************************************************************************)
(* C19                                                                     *)
(***************************************************************************)
\* C19: a point plan is produced only if every candidate table has at least one
\* computed predicate in its own scope; hence in every point plan each matched table
\* reference of the statement is rewritten to its sharded name.
C19_PointPlanCoversEveryTable ==
    PointPlan =>
        /\ \A t \in DOMAIN CallTables :
                \E i \in DOMAIN WhereLiterals : WhereLiterals[i].scope = CallTables[t].scope
        /\ \A t \in DOMAIN CallTables :
                \E c \in DOMAIN PointChanges : PointChanges[c].span = CallTables[t].table.span

(***************************************************************************)
(* C20                                                                     *)
(***************************************************************************)
\* C20: when a statement on a sharded table has WHERE equality predicates but none of
\* them is on the sharding column with a numeric literal, the planner downgrades to
\* the broadcast plan under both strategies: the call returns the broadcast outputs,
\* one per shard in ascending order, and neither returns an error nor aborts.
C20_NoShardingPredicateBroadcasts ==
    (OnShardedTable /\ rw_call[1].stmt.kind = "select"
        /\ CallMeta.wheres # <<>> /\ WhereLiterals = <<>>) =>
        /\ rw_call[1].rewritten[1].kind = "ok"
        /\ Len(rw_call[1].rewritten[1].outputs)
                = get_sharding_count(CallTables[1].rule)[StrategyOf(CallTables[1].rule)][1]
        /\ \A k \in DOMAIN rw_call[1].rewritten[1].outputs :
                rw_call[1].rewritten[1].outputs[k].changes[1].shard_idx = k - 1

(***************************************************************************)
(* C21                                                                     *)
(***************************************************************************)
\* The WHERE equalities on the sharding column of a SELECT on a sharded table all
\* parse and all compute the same shard index: the planner has one shard to go to.
OneShardPlanned ==
    /\ Rewrote
    /\ rw_call[1].stmt.kind = "select"
    /\ OnShardedTable
    /\ LET literals == WhereLiterals IN
       /\ literals # <<>>
       /\ \A i \in DOMAIN literals : Parses(literals[i]) /\ literals[i].count > 0
       /\ \A i, j \in DOMAIN literals :
            CalcOf(literals[i], literals[i].count) = CalcOf(literals[j], literals[j].count)

\* The endpoint a point plan is to be bound to, an Option: the one named by the data
\* node at the shard index under the database strategy and by the first data node
\* under the table strategy.
PointEndpoint ==
    LET rule == CallTables[1].rule
        lit  == WhereLiterals[1]
        at   == IF StrategyOf(rule) = 1 THEN CalcOf(lit, lit.count).val + 1 ELSE 1
    IN IF at \in DOMAIN rule.actual_datanodes
       THEN FindEndpoint(sharding_rewrite[1].endpoints, rule.actual_datanodes[at])
       ELSE None

\* C21: for a point plan with read-write split off, the single output's data_source is
\* the endpoint whose name equals rule.actual_datanodes[shard_idx] under the database
\* strategy and rule.actual_datanodes[0] under the table strategy; when no configured
\* endpoint has that name, or the data-node list has no entry at that index, the
\* rewrite call returns the error EndpointNotFound under both strategies.
C21_PointPlanBoundToShardEndpoint ==
    (OneShardPlanned /\ ~sharding_rewrite[1].has_rw) =>
        LET ep == PointEndpoint IN
        IF IsSome(ep)
        THEN /\ rw_call[1].rewritten[1].kind = "ok"
             /\ Len(rw_call[1].rewritten[1].outputs) = 1
             /\ rw_call[1].rewritten[1].outputs[1].data_source = DataSourceEndpoint(ep[1])
        ELSE rw_call[1].rewritten[1] = RwErr("EndpointNotFound")

(***************************************************************************)
(* C22                                                                     *)
(***************************************************************************)
\* A SELECT on a sharded table for which the planner has no single shard: it has no
\* WHERE predicate, or its equalities on the sharding column parse and compute
\* different shard indexes.
BroadcastPlanned ==
    /\ Rewrote
    /\ rw_call[1].stmt.kind = "select"
    /\ OnShardedTable
    /\ DataNodesConfigured
    /\ \/ CallMeta.wheres = <<>>
       \/ LET literals == WhereLiterals IN
          /\ \A i \in DOMAIN literals : Parses(literals[i]) /\ literals[i].count > 0
          /\ \A i \in DOMAIN literals :
                /\ ~CalcOf(literals[i], literals[i].count).panic
                /\ CalcOf(literals[i], literals[i].count).val \in 0..(literals[i].count - 1)
          /\ \E i, j \in DOMAIN literals :
                CalcOf(literals[i], literals[i].count) # CalcOf(literals[j], literals[j].count)

\* C22: a broadcast plan under the database strategy yields exactly one output per data
\* node of the rule, and the i-th output is consistent: its data_source is the endpoint
\* named rule.actual_datanodes[i] and the replacement of every table reference is
\* qualified with that same endpoint's database, for any order of the configured
\* endpoint list relative to the rule's data-node list.
C22_DatabaseBroadcastIsConsistent ==
    (BroadcastPlanned /\ StrategyOf(CallTables[1].rule) = 1) =>
        LET rule    == CallTables[1].rule
            outputs == rw_call[1].rewritten[1].outputs
        IN
        /\ rw_call[1].rewritten[1].kind = "ok"
        /\ Len(outputs) = Len(rule.actual_datanodes)
        /\ \A i \in DOMAIN outputs :
            LET ep == FindEndpoint(sharding_rewrite[1].endpoints, rule.actual_datanodes[i])[1] IN
            /\ outputs[i].data_source = DataSourceEndpoint(ep)
            /\ \A c \in DOMAIN outputs[i].changes :
                outputs[i].changes[c].typ = "DatabaseChange" =>
                    \E name \in {CallTables[t].table.name : t \in DOMAIN CallTables} :
                        StripChar(outputs[i].changes[c].target, BT) = ep.db \o "." \o StripChar(name, BT)

(***************************************************************************)
(* C23                                                                     *)
(***************************************************************************)
\* C23: a broadcast plan under the table strategy yields exactly sharding_count
\* outputs, the i-th output (i from 0) naming the physical table with suffix i in
\* every matched table reference, and all outputs are bound to the endpoint named
\* rule.actual_datanodes[0], the one a point plan for that rule is bound to, whatever
\* other endpoints are configured.
C23_TableBroadcastBoundToRuleEndpoint ==
    (BroadcastPlanned /\ StrategyOf(CallTables[1].rule) = 2 /\ ~sharding_rewrite[1].has_rw) =>
        LET rule    == CallTables[1].rule
            tables  == CallTables
            outputs == rw_call[1].rewritten[1].outputs
        IN
        /\ rw_call[1].rewritten[1].kind = "ok"
        /\ Len(outputs) = rule.table_strategy[1].sharding_count
        /\ \A i \in DOMAIN outputs :
            /\ outputs[i].data_source
                = DataSourceEndpoint(FindEndpoint(sharding_rewrite[1].endpoints,
                                                  rule.actual_datanodes[1])[1])
            /\ \A t \in DOMAIN tables :
                \E c \in DOMAIN outputs[i].changes :
                    /\ outputs[i].changes[c].typ = "DatabaseChange"
                    /\ outputs[i].changes[c].span = tables[t].table.span
                    /\ LET name == StripChar(outputs[i].changes[c].target, BT) IN
                       SubSeq(name, Len(name) - 4, Len(name)) = ZeroPad(Decimal(i - 1), 5)

(***************************************************************************)
(* C24                                                                     *)
(***************************************************************************)
\* The first rule named by a table reference, quoting stripped: an Option.
RuleNamed(table) ==
    LET at == FirstIndex({j \in DOMAIN sharding_rewrite[1].rules :
                            sharding_rewrite[1].rules[j].table_name = StripChar(table.name, BT)})
    IN IF at = 0 THEN None ELSE Some(sharding_rewrite[1].rules[at])

\* A matched table reference is reachable.
Reachable(table, rule) ==
    \/ IsSome(table.schema)
    \/ /\ IsSome(rw_call[1].default_db)
       /\ IF sharding_rewrite[1].has_rw
          THEN \E i \in DOMAIN rule.actual_datanodes :
                \E g \in DOMAIN sharding_rewrite[1].node_group_config[1].members :
                    sharding_rewrite[1].node_group_config[1].members[g].name
                        = rule.actual_datanodes[i]
          ELSE \E i \in DOMAIN rule.actual_datanodes :
                \E e \in DOMAIN sharding_rewrite[1].endpoints :
                    /\ sharding_rewrite[1].endpoints[e].name = rule.actual_datanodes[i]
                    /\ sharding_rewrite[1].endpoints[e].db = rw_call[1].default_db[1]

\* C24: a table reference whose backtick-stripped name equals a rule's table name
\* becomes a candidate triple iff it is reachable: it carries a schema qualifier, or a
\* default database is set and (read-write split off) some data node of the rule names
\* an endpoint whose database equals the default, or (read-write split on) some data
\* node of the rule is a member of the node group.  The decision is made for each
\* reference on its own, whether it is the first or a later matched reference.
C24_CandidateIffReachable ==
    (Rewrote /\ (sharding_rewrite[1].has_rw => IsSome(sharding_rewrite[1].node_group_config))) =>
        LET items  == MapItems(CallMeta.tables)
            tables == CallTables
        IN \A i \in DOMAIN items :
            IsSome(RuleNamed(items[i].x)) =>
                ((\E t \in DOMAIN tables :
                    /\ tables[t].scope = items[i].k
                    /\ tables[t].table = items[i].x
                    /\ tables[t].rule = RuleNamed(items[i].x)[1])
                 <=> Reachable(items[i].x, RuleNamed(items[i].x)[1]))

(***************************************************************************)
(* C25                                                                     *)
(***************************************************************************)
\* No table reference of the call's statement is named by a rule.
NoRuleNamesATable ==
    LET items == MapItems(CallMeta.tables) IN
    \A i \in DOMAIN items : ~IsSome(RuleNamed(items[i].x))

\* C25: rewriting a statement none of whose tables is named by any rule returns the
\* empty list without error; in particular, feeding the target_sql of an output of the
\* table strategy back in with the same rules, where the logical table name no longer
\* appears, returns the empty list.  Every call is covered, the calls that feed an
\* output of the call before them back in among them.
C25_UnknownTablesRewriteToNothing ==
    (Rewrote /\ NoRuleNamesATable) => rw_call[1].rewritten[1] = RwOk(<<>>)

\* The text of the output for sub-table 3 was rewritten again, to nothing, and went to
\* the one endpoint as it was.
C25_Witness ==
    /\ Rewrote
    /\ calls = 2
    /\ rw_call[1].raw_sql = "SELECT idx from ^db^.tshard_00003 where idx = 3"
    /\ NoRuleNamesATable
    /\ rw_call[1].rewritten[1] = RwOk(<<>>)
    /\ Len(rw_call[1].result.outputs) = 1
    /\ rw_call[1].result.outputs[1].target_sql = rw_call[1].raw_sql

(***************************************************************************)
(* C26                                                                     *)
(***************************************************************************)
\* The rendering that is claimed for a table reference: under the table strategy for
\* sub-table idx, under the database strategy for the data node at idx.
RenderedTable(table, rule, idx) ==
    LET schema == IF IsSome(table.schema) THEN table.schema[1] ELSE rw_call[1].default_db[1] IN
    IF StrategyOf(rule) = 2
    THEN BT \o StripChar(schema, BT) \o BT \o "."
            \o (IF Contains(table.name, BT)
                THEN BT \o StripChar(table.name, BT) \o "_" \o ZeroPad(Decimal(idx), 5) \o BT
                ELSE table.name \o "_" \o ZeroPad(Decimal(idx), 5))
    ELSE LET db == FindEndpoint(sharding_rewrite[1].endpoints,
                                rule.actual_datanodes[idx + 1])[1].db
         IN (IF IsSome(table.schema) /\ Contains(table.schema[1], BT) THEN BT \o db \o BT ELSE db)
                \o "." \o table.name

\* C26: table-name rendering preserves quoting for every combination of quoted or
\* unquoted schema and table name: under the table strategy the reference becomes the
\* schema (the reference's own if present, else the default database) wrapped in
\* exactly one pair of backquotes, a dot, and the name suffixed with the 5-digit
\* zero-padded shard index, the suffixed name being quoted iff the source name was;
\* under the database strategy it becomes the node's database name, quoted iff the
\* source schema was, a dot, and the original table name unchanged.  Stated of every
\* table replacement of every output of a SELECT.
C26_TableRenderingPreservesQuoting ==
    (OnShardedTable /\ rw_call[1].stmt.kind = "select" /\ rw_call[1].rewritten[1].kind = "ok") =>
        LET tables  == CallTables
            outputs == rw_call[1].rewritten[1].outputs
        IN \A i \in DOMAIN outputs :
            \A c \in DOMAIN outputs[i].changes :
                (outputs[i].changes[c].typ = "DatabaseChange" /\ outputs[i].changes[c].shard_idx >= 0) =>
                    \E t \in DOMAIN tables :
                        /\ tables[t].table.span = outputs[i].changes[c].span
                        /\ outputs[i].changes[c].target
                            = RenderedTable(tables[t].table, tables[t].rule,
                                            outputs[i].changes[c].shard_idx)

(***************************************************************************)
(* C27                                                                     *)
(***************************************************************************)
\* The ORDER BY columns, then the GROUP BY columns, of the top-level query that are
\* absent from its projection (quoting stripped), each with the marker of its alias.
AbsentColumns ==
    LET q       == rw_call[1].stmt
        InProj(name) == \E f \in DOMAIN q.fields :
                            StripChar(q.fields[f].name, BT) = StripChar(name, BT)
        orders  == [i \in DOMAIN q.orders |->
                        [name |-> q.orders[i].name, derived |-> rewrite_const.ORDER_BY_DERIVED]]
        groups  == [i \in DOMAIN q.groups |->
                        [name |-> q.groups[i], derived |-> rewrite_const.GROUP_BY_DERIVED]]
    IN SelectSeq(orders \o groups, LAMBDA c : ~InProj(c.name))

\* The projections that are the original list, once, followed by every absent column
\* under its derived alias for shard idx, the derived columns in any order.
AugmentedProjections(idx) ==
    LET q       == rw_call[1].stmt
        absent  == AbsentColumns
        derived == [i \in DOMAIN absent |->
                        absent[i].name \o " AS "
                            \o to_ascii_uppercase(StripChar(absent[i].name, BT))
                            \o "_" \o absent[i].derived \o "_" \o ZeroPad(Decimal(idx), 5)]
    IN { Join([i \in DOMAIN q.fields |-> q.fields[i].text], ", ") \o ", "
            \o Join([i \in DOMAIN derived |-> derived[p[i]]], ", ") :
         p \in {f \in [DOMAIN derived -> DOMAIN derived] :
                    \A i, j \in DOMAIN derived : f[i] = f[j] => i = j} }

\* A SELECT of one query scope on a sharded table, without AVG, some of whose ORDER BY
\* or GROUP BY columns are absent from the projection, was rewritten.
AugmentsProjection ==
    /\ Rewrote
    /\ rw_call[1].stmt.kind = "select"
    /\ rw_call[1].stmt.sub = <<>>
    /\ rw_call[1].rewritten[1].kind = "ok"
    /\ OnShardedTable
    /\ \A f \in DOMAIN rw_call[1].stmt.fields : rw_call[1].stmt.fields[f].wrap_func # "Avg"
    /\ AbsentColumns # <<>>

\* C27: for every ORDER BY column and every GROUP BY column of the top-level query that
\* is absent from its projection, the output's projection is the original projection
\* list, emitted exactly once, followed by the column under its derived alias (the
\* column uppercased, backquotes stripped, then _ORDER_BY_DERIVED_ or
\* _GROUP_BY_DERIVED_ and the 5-digit shard index), also when several such columns
\* exist, when ORDER BY and GROUP BY are both present, and when another ORDER BY or
\* GROUP BY column is already in the projection.
C27_AbsentColumnsAppendedOnce ==
    AugmentsProjection =>
        LET outputs == rw_call[1].rewritten[1].outputs IN
        \A i \in DOMAIN outputs :
            outputs[i].changes[1].shard_idx >= 0 =>
                \E proj \in AugmentedProjections(outputs[i].changes[1].shard_idx) :
                    LET head == "SELECT " \o proj \o " from " IN
                    /\ Len(outputs[i].target_sql) >= Len(head)
                    /\ SubSeq(outputs[i].target_sql, 1, Len(head)) = head

(***************************************************************************)
(* C28                                                                     *)
(***************************************************************************)
\* name is in the top-level projection, compared with backquotes stripped.
InProjection(name) ==
    \E f \in DOMAIN rw_call[1].stmt.fields :
        StripChar(rw_call[1].stmt.fields[f].name, BT) = StripChar(name, BT)

\* A SELECT of one query scope on a sharded table, without AVG, all of whose ORDER BY
\* and GROUP BY columns are in the projection, was rewritten.
SortsOnProjection ==
    /\ Rewrote
    /\ rw_call[1].stmt.kind = "select"
    /\ rw_call[1].stmt.sub = <<>>
    /\ rw_call[1].stmt.orders # <<>> \/ rw_call[1].stmt.groups # <<>>
    /\ rw_call[1].rewritten[1].kind = "ok"
    /\ OnShardedTable
    /\ \A f \in DOMAIN rw_call[1].stmt.fields : rw_call[1].stmt.fields[f].wrap_func # "Avg"
    /\ \A o \in DOMAIN rw_call[1].stmt.orders : InProjection(rw_call[1].stmt.orders[o].name)
    /\ \A g \in DOMAIN rw_call[1].stmt.groups : InProjection(rw_call[1].stmt.groups[g])

\* C28: for each ORDER BY column, and likewise each GROUP BY column, that is already in
\* the top-level projection (compared with backquotes stripped), the output carries an
\* OrderChange (GroupChange) whose field is the column name and whose target is empty,
\* and the projection text of target_sql is left unedited by the order/group step.
C28_PresentColumnsGetEmptyTargets ==
    SortsOnProjection =>
        LET q       == rw_call[1].stmt
            outputs == rw_call[1].rewritten[1].outputs
            head    == "SELECT " \o Join([i \in DOMAIN q.fields |-> q.fields[i].text], ", ")
                          \o " from "
        IN \A i \in DOMAIN outputs :
            /\ SubSeq(outputs[i].target_sql, 1, Len(head)) = head
            /\ \A o \in DOMAIN q.orders :
                \E c \in DOMAIN outputs[i].changes :
                    /\ outputs[i].changes[c].typ = "OrderChange"
                    /\ outputs[i].changes[c].target
                        = MapInsert(MapInsert(EmptyMap, rewrite_const.ORDER_FIELD, q.orders[o].name),
                                    rewrite_const.ORDER_TARGET, "")
            /\ \A g \in DOMAIN q.groups :
                \E c \in DOMAIN outputs[i].changes :
                    /\ outputs[i].changes[c].typ = "GroupChange"
                    /\ outputs[i].changes[c].target
                        = MapInsert(MapInsert(EmptyMap, rewrite_const.GROUP_FIELD, q.groups[g]),
                                    rewrite_const.GROUP_TARGET, "")

(***************************************************************************)
(* C29                                                                     *)
(***************************************************************************)
\* The query q with every AVG(col) of every projection, subqueries included, written
\* as the COUNT and SUM columns derived for shard idx; the other projection items and
\* their order are kept.
RECURSIVE AvgReplaced(_, _)
AvgReplaced(q, idx) ==
    LET Derived(field) ==
            "COUNT(" \o field.name \o ") AS " \o to_ascii_uppercase(field.name)
                \o "_AVG_DERIVED_COUNT_" \o ZeroPad(Decimal(idx), 5) \o ", "
                \o "SUM(" \o field.name \o ") AS " \o to_ascii_uppercase(field.name)
                \o "_AVG_DERIVED_SUM_" \o ZeroPad(Decimal(idx), 5)
    IN [q EXCEPT !.fields = [i \in DOMAIN q.fields |->
                                IF q.fields[i].wrap_func = "Avg"
                                THEN [q.fields[i] EXCEPT !.text = Derived(q.fields[i])]
                                ELSE q.fields[i]],
                 !.sub = IF q.sub # <<>> THEN << AvgReplaced(q.sub[1], idx) >> ELSE <<>>]

\* Some projection of the query, subqueries included, has an AVG.
RECURSIVE HasAvg(_)
HasAvg(q) ==
    \/ \E f \in DOMAIN q.fields : q.fields[f].wrap_func = "Avg"
    \/ q.sub # <<>> /\ HasAvg(q.sub[1])

\* A SELECT with an AVG, and without ORDER BY and GROUP BY, on a sharded table was
\* rewritten.
RewroteAvg ==
    /\ Rewrote
    /\ rw_call[1].stmt.kind = "select"
    /\ rw_call[1].stmt.orders = <<>> /\ rw_call[1].stmt.groups = <<>>
    /\ rw_call[1].rewritten[1].kind = "ok"
    /\ OnShardedTable
    /\ HasAvg(rw_call[1].stmt)

\* C29: every AVG(col) in a projection is replaced by COUNT(col) AS
\* COL_AVG_DERIVED_COUNT_idx, SUM(col) AS COL_AVG_DERIVED_SUM_idx (COL uppercased, idx
\* the 5-digit shard index of the output: the chosen shard of a point plan, the
\* enumerated shard of a broadcast); several AVGs in one projection are joined by ", ",
\* and an AVG inside a subquery is replaced at its own position, in point plans as in
\* broadcast plans, and when AVGs occur in more than one query scope.  The text of
\* every output is the statement with its tables renamed and its AVGs so replaced.
C29_EveryAvgReplacedInPlace ==
    RewroteAvg =>
        LET outputs == rw_call[1].rewritten[1].outputs
            tables  == CallMeta.tables
        IN \A i \in DOMAIN outputs :
            outputs[i].changes[1].shard_idx >= 0 =>
                outputs[i].target_sql
                    = RenderSelect(AvgReplaced(Renamed(rw_call[1].stmt, 1, tables, outputs[i].changes),
                                               outputs[i].changes[1].shard_idx), 0, 1).text

(***************************************************************************)
(* C30                                                                     *)
(***************************************************************************)
\* The MIN- and MAX-wrapped fields of the top-level projection as the metadata has
\* them, in projection order.
MinMaxOfProjection ==
    LET fields == MapGet(CallMeta.fields, 1)[1] IN
    SelectSeq(fields, LAMBDA f : f.wrap_func = "Min" \/ f.wrap_func = "Max")

\* A SELECT of one query scope on sharded tables was rewritten.
RewroteOneScope ==
    /\ Rewrote
    /\ rw_call[1].stmt.kind = "select"
    /\ rw_call[1].stmt.sub = <<>>
    /\ rw_call[1].rewritten[1].kind = "ok"
    /\ OnShardedTable

\* C30: for every output of a non-INSERT rewrite, min_max_fields holds exactly the MIN-
\* and MAX-wrapped projection fields of the rewritten query scope, each once, with
\* span, name and wrapper unchanged, in projection order, in point plans and broadcast
\* plans alike, and also when the scope references more than one sharded table.
C30_MinMaxFieldsForwardedOnce ==
    RewroteOneScope =>
        LET expected == MinMaxOfProjection
            outputs  == rw_call[1].rewritten[1].outputs
        IN \A i \in DOMAIN outputs : outputs[i].min_max_fields = expected

(***************************************************************************)
(* C31                                                                     *)
(***************************************************************************)
\* The rewriter as ShardingRewrite::new builds it from the configuration of the one at
\* hand: no statement and no default database stored.
FreshRewriter ==
    ShardingRewrite(sharding_rewrite[1].rules, sharding_rewrite[1].endpoints,
                    sharding_rewrite[1].node_group_config, sharding_rewrite[1].has_rw)

\* C31: a rewrite call is a pure function of (rules, endpoints, raw SQL, parsed tree,
\* default database, read-write-split flag): the result of a call on a ShardingRewrite
\* instance does not depend on which statements and default databases that instance
\* rewrote before.  Every call, the first on an instance or a later one, returns what
\* a newly constructed rewriter of the same configuration returns for the same input.
C31_RewriteIsPure ==
    Rewrote =>
        \E fresh \in {query_rewrite(FreshRewriter, rw_call[1].raw_sql, CallMeta,
                                    rw_call[1].default_db, TRUE, build = "debug")} :
            /\ rw_call[1].rewritten = fresh.rewritten
            /\ rw_call[1].result = fresh.result

\* A second call without a default database on an unqualified table, on an instance
\* with a rule for the table: nothing is rewritten.
C31_Witness ==
    /\ Rewrote
    /\ calls = 2
    /\ rw_call[1].stmt = Chain(Ref(None, "tshard"), <<"3">>)
    /\ rw_call[1].default_db = None
    /\ sharding_rewrite[1].rules = <<TableRule>>
    /\ sharding_rewrite[1].endpoints = TableEndpoints
    /\ rw_call[1].rewritten[1] = RwOk(<<>>)

(***************************************************************************)
(* C32                                                                     *)
(***************************************************************************)
\* A SELECT without AVG, ORDER BY and GROUP BY in any scope: the table-name edits are
\* the only edits of its outputs.
RECURSIVE OnlyTableEdits(_)
OnlyTableEdits(q) ==
    /\ \A f \in DOMAIN q.fields : q.fields[f].wrap_func # "Avg"
    /\ q.orders = <<>> /\ q.groups = <<>>
    /\ q.sub # <<>> => OnlyTableEdits(q.sub[1])

\* Such a statement on a sharded table whose data nodes all name endpoints, with a
\* point plan or a broadcast plan.
PlansTableEdits ==
    /\ OneShardPlanned \/ BroadcastPlanned
    /\ DataNodesConfigured
    /\ OnlyTableEdits(rw_call[1].stmt)
    /\ \A i \in DOMAIN WhereLiterals :
            LET lit == WhereLiterals[i] IN
            /\ ~CalcOf(lit, lit.count).panic
            /\ CalcOf(lit, lit.count).val \in 0..(lit.count - 1)

\* C32: when k table-name edits are applied left to right to one target string, the
\* running offset starts at 0 and after each edit is updated by (replacement length -
\* span length), so the i-th edit is applied at span.start plus the sum of the length
\* changes of all edits applied before it, for every k, including k >= 3 and
\* replacements shorter than the span (the offset computation does not underflow).
\* The call returns, and the text of every output is the statement with each replaced
\* reference standing where the original reference stood.
C32_EditsShiftedByRunningOffset ==
    PlansTableEdits =>
        /\ rw_call[1].rewritten[1].kind = "ok"
        /\ LET outputs == rw_call[1].rewritten[1].outputs
               tables  == CallMeta.tables
           IN \A i \in DOMAIN outputs :
                outputs[i].target_sql
                    = RenderSelect(Renamed(rw_call[1].stmt, 1, tables, outputs[i].changes), 0, 1).text

(***************************************************************************)
(* C33                                                                     *)
(***************************************************************************)
\* The rank of a change in the order of an output's list.
ChangeRank(change) ==
    CASE change.typ = "DatabaseChange" -> 1
      [] change.typ = "OrderChange"    -> 2
      [] change.typ = "GroupChange"    -> 3
      [] change.typ = "AvgChange"      -> 4

\* The table replacements of an output.
TableChangesOf(output) ==
    SelectSeq(output.changes, LAMBDA c : c.typ = "DatabaseChange")

\* A SELECT on a sharded table returned outputs.
RewroteSelect ==
    /\ Rewrote
    /\ rw_call[1].stmt.kind = "select"
    /\ rw_call[1].rewritten[1].kind = "ok"
    /\ OnShardedTable

\* C33: within every non-INSERT output the edits are applied in the order (1) table-name
\* substitutions, (2) projection rewrite for ORDER/GROUP, (3) AVG rewrite, and the
\* changes list follows the same order: all DatabaseChange entries first, in
\* table-reference order, then an OrderChange if any, then a GroupChange if any, then
\* an AvgChange if any.  The offset used for the AVG rewrite is zero when the first AVG
\* span precedes the first table span of the output: the text is then the raw SQL
\* after the three steps in this order, the last at offset zero.
C33_EditsAndChangesInStepOrder ==
    RewroteSelect =>
        LET meta    == CallMeta
            outputs == rw_call[1].rewritten[1].outputs
        IN \A i \in DOMAIN outputs :
            LET changes == outputs[i].changes
                tchg    == TableChangesOf(outputs[i])
            IN /\ changes # <<>> /\ changes[1].typ = "DatabaseChange"
               /\ \A a, b \in DOMAIN changes :
                    a < b =>
                        /\ ChangeRank(changes[a]) <= ChangeRank(changes[b])
                        /\ ChangeRank(changes[a]) = ChangeRank(changes[b])
                                => /\ changes[a].typ = "DatabaseChange"
                                   /\ changes[a].span.start < changes[b].span.start
               /\ (meta.avgs # <<>>) = (\E c \in DOMAIN changes : changes[c].typ = "AvgChange")
               /\ (meta.avgs # <<>> /\ meta.avgs[1].v[1].span.start < tchg[1].span.start) =>
                    \E tables \in {apply_changes(rw_call[1].raw_sql, tchg, 0, build = "debug")} :
                      \E og \in {change_order_group(tables.sql, meta.orders, meta.groups,
                                                    meta.fields, tchg[1].shard_idx)} :
                        outputs[i].target_sql
                            = change_avg(og.sql, meta.avgs, tchg[1].shard_idx, 0).sql

\* A broadcast output of a statement with AVG, ORDER BY and GROUP BY, whose list holds
\* a table replacement, an OrderChange, a GroupChange and an AvgChange.
C33_Witness ==
    /\ RewroteSelect
    /\ rw_call[1].raw_sql = "SELECT AVG(pbl) from db.tshard GROUP BY user_id ORDER BY user_id, price DESC"
    /\ Len(rw_call[1].rewritten[1].outputs) = 4
    /\ [c \in 1..4 |-> rw_call[1].rewritten[1].outputs[2].changes[c].typ]
            = <<"DatabaseChange", "OrderChange", "GroupChange", "AvgChange">>

(***************************************************************************)
(* C34                                                                     *)
(***************************************************************************)
\* A SELECT on a sharded table, planned as a point or a broadcast, whose only ORDER BY
\* or GROUP BY stands in its subquery; no scope has an AVG.
SortsInSubqueryOnly ==
    /\ OneShardPlanned \/ BroadcastPlanned
    /\ DataNodesConfigured
    /\ ~HasAvg(rw_call[1].stmt)
    /\ rw_call[1].stmt.orders = <<>> /\ rw_call[1].stmt.groups = <<>>
    /\ rw_call[1].stmt.sub # <<>>
    /\ rw_call[1].stmt.sub[1].orders # <<>> \/ rw_call[1].stmt.sub[1].groups # <<>>

\* C34: only the top-level query (scope 1) drives ORDER/GROUP augmentation: an ORDER BY
\* or GROUP BY that occurs only inside a subquery neither changes any projection (the
\* subquery's projection and the top-level projection stay as in the raw SQL) nor
\* makes the rewrite call fail.  The call returns outputs whose text is the statement
\* with its table references replaced and nothing else changed.
C34_SubqueryOrderByIsInert ==
    SortsInSubqueryOnly =>
        /\ rw_call[1].rewritten[1].kind = "ok"
        /\ LET outputs == rw_call[1].rewritten[1].outputs
               tables  == CallMeta.tables
           IN \A i \in DOMAIN outputs :
                outputs[i].target_sql
                    = RenderSelect(Renamed(rw_call[1].stmt, 1, tables, outputs[i].changes), 0, 1).text

(***************************************************************************)
(* C35                                                                     *)
(***************************************************************************)
\* What a get_conn call leaves: the cached connection handed out and the cache empty,
\* or a panic when nothing was cached; get_conn_with_endpoint does not panic.
C35_GetConnOutcome ==
    /\ call.op = "get_conn" =>
          /\ client_conn = <<>>
          /\ ~call.pool_asked
          /\ IF call.cached # <<>>
             THEN ~panicked /\ call.ok /\ call.conns_out = call.cached
             ELSE panicked
    /\ call.op = "get_conn_with_endpoint" =>
          /\ ~panicked
          /\ call.pool_asked = (call.cached = <<>>)
    /\ panicked => call.op = "get_conn" /\ call.cached = <<>>

\* After a take of the primary connection the cache stays empty until put_conn, and a
\* get_conn on an empty cache panics.
C35_TakeAfterTake ==
    /\ (client_conn = <<>> /\ client_conn' # <<>>) => call'.op = "put_conn"
    /\ (call.op \in PrimaryTakes /\ call'.op # "put_conn") => client_conn' = <<>>
    /\ (client_conn = <<>> /\ call'.op = "get_conn") => panicked'

\* C35: get_conn (the no-argument take) assumes a cached primary connection: it returns
\* the cached connection and empties the cache when one exists, and reaches a panic
\* state when none is cached, so any call sequence with two takes and no put_conn in
\* between (get_conn after get_conn or after get_conn_with_endpoint) reaches that
\* panic; get_conn_with_endpoint never panics on an empty cache but asks the pool.
C35_GetConnPanicsOnEmptyCache ==
    []C35_GetConnOutcome /\ [][C35_TakeAfterTake]_vars

\* get_conn found the cache empty while the driver task owns a connection taken
\* before.
C35_Witness ==
    /\ call.op = "get_conn"
    /\ call.cached = <<>>
    /\ panicked
    /\ held # {}
    /\ client_conn = <<>>

(***************************************************************************)
(* C36                                                                     *)
(***************************************************************************)
\* With read-write split active, a statement that matched a sharding rule returned
\* outputs.
RewroteWithSplit ==
    /\ Rewrote
    /\ sharding_rewrite[1].has_rw
    /\ rw_call[1].rewritten[1].kind = "ok"
    /\ rw_call[1].rewritten[1].outputs # <<>>
    /\ OnShardedTable

\* C36: when read-write split is active, every output of a statement that matched a
\* sharding rule has data_source NodeGroup(rule.actual_datanodes[0]) and never a
\* concrete Endpoint - for point plans, for broadcast plans under the table strategy
\* and under the database strategy, and for INSERT splits.
C36_SplitOutputsNameNodeGroup ==
    RewroteWithSplit =>
        LET outputs == rw_call[1].rewritten[1].outputs
            tables  == CallTables
        IN \A i \in DOMAIN outputs :
            \E t \in DOMAIN tables :
                outputs[i].data_source = DataSourceNodeGroup(tables[t].rule.actual_datanodes[1])

(***************************************************************************)
(* C37                                                                     *)
(***************************************************************************)
\* Some sequence of at most n events leads from state s to Dummy.
RECURSIVE EventsLeadToDummy(_, _)
EventsLeadToDummy(s, n) ==
    \/ s = "TransDummyState"
    \/ /\ n > 0
       /\ \E e \in TransEventName :
            EventsLeadToDummy(trigger([current_state |-> s, current_event |-> "DummyEvent"],
                                      e).current_state, n - 1)

HeldStates == {"TransUseState", "TransSetSessionState", "TransStartState", "TransPrepareState"}

TerminatingEvents == {"CloseEvent", "ResetEvent", "DropEvent", "CommitRollBackEvent"}

\* No state is a trap, and a trigger call returns true only from Dummy.
C37_NoTrap ==
    /\ current_state \in TransState
    /\ EventsLeadToDummy(current_state, Cardinality(TransState) - 1)
    /\ (call.op = "trigger" /\ call.ret) => call.src_state = "TransDummyState"

\* The ways back: no trigger call made in Use, SetSession, Start or Prepare returns
\* true; Use and SetSession are left for Dummy by reset_fsm_state only, and an event
\* takes Start or Prepare to Dummy only if it is a terminating event.
C37_WayBack ==
    /\ (current_state \in HeldStates /\ call'.op = "trigger") => ~call'.ret
    /\ (current_state \in {"TransUseState", "TransSetSessionState"}
            /\ current_state' = "TransDummyState") => call'.op = "reset_fsm_state"
    /\ (current_state \in {"TransUseState", "TransSetSessionState"}
            /\ current_state' \notin {"TransUseState", "TransSetSessionState"}
            /\ call'.op = "trigger")
          => /\ current_state' \in {"TransStartState", "TransPrepareState"}
             /\ call'.event \in {"StartEvent", "PrepareEvent"}
    /\ (current_state \in {"TransStartState", "TransPrepareState"}
            /\ current_state' = "TransDummyState" /\ call'.op = "trigger")
          => call'.event \in TerminatingEvents

\* C37: the FSM has no trap state: from every state reachable from Dummy by any
\* sequence of events, some finite sequence of events leads back to Dummy; and while
\* the state is Use, SetSession, Start or Prepare no trigger call returns true, so
\* after a USE or SET_SESSION the caller is signalled a fresh acquisition again only
\* after the state has returned to Dummy through START/PREPARE followed by a
\* terminating event, or through reset_fsm_state.
C37_NoTrapAndSignalOnlyFromDummy ==
    []C37_NoTrap /\ [][C37_WayBack]_vars

\* The session that went through USE and SET_SESSION is back in Dummy after START,
\* PREPARE and COMMIT_ROLLBACK, with no trigger call having returned true on the way.
C37_Witness ==
    /\ script = [start |-> "TransUseState", pos |-> 7]
    /\ current_state = "TransDummyState"
    /\ call.op = "trigger"
    /\ call.event = "CommitRollBackEvent"
    /\ call.src_state = "TransPrepareState"
    /\ ~call.ret

(***************************************************************************)
(* C38                                                                     *)
(***************************************************************************)
\* What a get_conn_with_endpoint call leaves, in each of its outcomes.
C38_Outcome ==
    call.op = "get_conn_with_endpoint" =>
        /\ client_conn = <<>>
        /\ call.pool_asked = (call.cached = <<>>)
        /\ call.cached # <<>> =>
              /\ call.ok
              /\ call.conns_out = call.cached
              /\ (call.conns_out[1].endpoint = call.endpoint)
                    = (call.cached[1].endpoint = call.endpoint)
        /\ (call.cached = <<>> /\ call.ok) =>
              /\ Len(call.conns_out) = 1
              /\ call.conns_out[1].endpoint = call.endpoint
        /\ ~call.ok => call.conns_out = <<>>
        /\ Range(call.conns_out) \subseteq held

\* What a get_conn_with_endpoint call leaves alone.
C38_Frame ==
    call'.op = "get_conn_with_endpoint" =>
        /\ current_state' = current_state
        /\ current_event' = current_event
        /\ shard_cache_conn' = shard_cache_conn
        /\ session' = session
        /\ call'.cached = client_conn

\* C38: get_conn_with_endpoint(endpoint) contacts the pool only when no primary
\* connection is cached; when one is cached it returns that cached connection
\* whatever endpoint is requested, so the returned connection belongs to the requested
\* endpoint only if the cached connection was put for that same endpoint.  In every
\* outcome (cached hit, pool success, pool error) the primary cache is empty after the
\* call, and the FSM state, the shard connection vector and the session attributes
\* are unchanged.
C38_TakeWithEndpointIgnoresEndpointOnHit ==
    []C38_Outcome /\ [][C38_Frame]_vars

\* A cached connection to one endpoint was handed out to a request for the other,
\* with session attributes set and a shard connection cached.
C38_Witness ==
    /\ call.op = "get_conn_with_endpoint"
    /\ call.cached # <<>>
    /\ call.conns_out = call.cached
    /\ call.endpoint = "127.0.0.2:3306"
    /\ call.cached[1].endpoint = "127.0.0.1:3306"
    /\ ~call.pool_asked
    /\ session = [db |-> <<"db">>, charset |-> "latin1", autocommit |-> <<"ON">>]
    /\ Len(shard_cache_conn) = 1

(***************************************************************************)
(* C39                                                                     *)
(***************************************************************************)
\* The AVG fields of the statement, of every query scope, as the metadata has them.
AvgFields ==
    LET avgs == CallMeta.avgs IN
    UNION {Range(avgs[e].v) : e \in DOMAIN avgs}

\* C39: the AvgChange of an output records, for every AVG field that was rewritten in
\* that output, the AVG field name and the names of its derived COUNT and SUM columns:
\* with n AVG fields in the statement the change carries the derived names of all n
\* fields, not only those of one of them.
C39_AvgChangeNamesEveryField ==
    (RewroteSelect /\ HasAvg(rw_call[1].stmt)) =>
        LET outputs == rw_call[1].rewritten[1].outputs
            fields  == AvgFields
        IN \A i \in DOMAIN outputs :
            \E c \in DOMAIN outputs[i].changes :
                /\ outputs[i].changes[c].typ = "AvgChange"
                /\ LET target == outputs[i].changes[c].target
                       names  == {target[k] : k \in DOMAIN target}
                       idx    == ZeroPad(Decimal(outputs[i].changes[1].shard_idx), 5)
                   IN \A f \in fields :
                        /\ f.avg_field_name \in names
                        /\ (to_ascii_uppercase(f.field_name) \o "_AVG_DERIVED_COUNT_" \o idx) \in names
                        /\ (to_ascii_uppercase(f.field_name) \o "_AVG_DERIVED_SUM_" \o idx) \in names

(***************************************************************************)
(* C40                                                                     *)
(***************************************************************************)
\* str begins with pre.
StartsWith(str, pre) == Len(str) >= Len(pre) /\ SubSeq(str, 1, Len(pre)) = pre

\* The pieces of str between the occurrences of ", ".
RECURSIVE SplitItems(_)
SplitItems(str) ==
    LET at == FirstIndex({i \in 1..(Len(str) - 1) : SubSeq(str, i, i + 1) = ", "}) IN
    IF at = 0 THEN << str >>
    ELSE << SubSeq(str, 1, at - 1) >> \o SplitItems(SubSeq(str, at + 2, Len(str)))

\* The projection items of a statement text: what stands between "SELECT " and the
\* first " from ".
ProjectionItems(sql) ==
    LET from == FirstIndex({i \in 1..(Len(sql) - 5) : SubSeq(sql, i, i + 5) = " from "}) IN
    SplitItems(SubSeq(sql, 8, from - 1))

\* A SELECT of one query scope with an AVG and without ORDER BY and GROUP BY, on a
\* sharded table, returned outputs: the AVG rewrite is the only edit of the projection.
RewroteAvgProjection ==
    /\ RewroteSelect
    /\ rw_call[1].stmt.sub = <<>>
    /\ HasAvg(rw_call[1].stmt)
    /\ rw_call[1].stmt.orders = <<>> /\ rw_call[1].stmt.groups = <<>>

\* C40: the AVG rewrite changes only the AVG fields: every projection field that is not
\* an AVG, including a field that stands between two AVG fields of the same
\* projection, appears in target_sql unchanged and in its original position relative
\* to the rewritten AVG fields.  Each AVG field giving two derived columns, the field
\* at place f of the projection is the item at place f plus the number of AVG fields
\* before it, and the items of the output are these fields and derived columns only.
C40_OtherFieldsKeepTheirPlace ==
    RewroteAvgProjection =>
        LET fields  == rw_call[1].stmt.fields
            outputs == rw_call[1].rewritten[1].outputs
            AvgsBefore(f) == Cardinality({g \in 1..(f - 1) : fields[g].wrap_func = "Avg"})
            AvgCount == Cardinality({g \in DOMAIN fields : fields[g].wrap_func = "Avg"})
        IN \A i \in DOMAIN outputs :
            LET items == ProjectionItems(outputs[i].target_sql) IN
            /\ Len(items) = Len(fields) + AvgCount
            /\ \A f \in DOMAIN fields :
                fields[f].wrap_func # "Avg" =>
                    items[f + AvgsBefore(f)] = fields[f].text
            /\ \A f \in DOMAIN fields :
                fields[f].wrap_func = "Avg" =>
                    /\ StartsWith(items[f + AvgsBefore(f)], "COUNT(")
                    /\ StartsWith(items[f + AvgsBefore(f) + 1], "SUM(")

====
